---- MODULE Spec2Model ----
\* Model of the ox-simulator device/profile state engine
\* (src/src/simulator_core.h, src/src/simulator_core.cpp) and of the profile
\* schema it reads (src/src/device_profiles.h, src/src/device_profiles.cpp),
\* with the two HTTP routes that resolve paths and switch the profile
\* (src/src/api/http_server.cpp).
\*
\* Conventions.
\*  - A path (a C string) is the sequence of its "/segment" pieces, so
\*    "/user/hand/right" is <<"/user", "/hand", "/right">>; strcmp is
\*    equality of sequences.  The null pointer is NULLSTR.
\*  - A float is an integer number of hundredths (0.7f is 70).
\*  - An InputValue (std::variant of bool, float, OxVector2f) is a record
\*    [tag, x, y]: tag "bool" with x in {0,1}, tag "float" with the value
\*    in x, tag "vec2" with both axes.
\*  - A pointer to a DeviceProfile is the name of the profile it points to
\*    (NULLPROFILE for nullptr); ProfileOf dereferences it.
\*  - Arrays and vectors keep the source's 0-based indices.
EXTENDS Integers, Sequences, FiniteSets, TLC

\* profile_, state_ and mutex are SimulatorCore's members; pc, call and ret
\* are each thread's position, arguments and result; g_device_profile is the
\* driver's profile pointer, shared with the HTTP server; http is the last
\* response of the server.
VARIABLES profile_, state_, mutex, pc, call, ret,
          g_device_profile, http

vars == <<profile_, state_, mutex, pc, call, ret, g_device_profile, http>>

\* ---- Constants of the program ----

\* ox_driver.h's array bound of DeviceState::devices / device_inputs.
OX_MAX_DEVICES == 3

\* sizeof(OxDeviceState::user_path) - 1, counted in path segments.
USER_PATH_CAP == 4

\* 0.5f, the float -> bool threshold of the coercing accessors.
HALF == 50

\* 1.0f, the float a true Boolean is coerced to.
ONE == 100

\* How many Device Templates OVERSIZE_PROFILE has beyond OX_MAX_DEVICES.
Oversize == 1

NULLSTR == <<"nullptr">>
NULLPROFILE == "nullptr"

Min(a, b) == IF a < b THEN a ELSE b

\* ---- Paths ----
HEAD == <<"/user", "/head">>
HAND_LEFT == <<"/user", "/hand", "/left">>
HAND_RIGHT == <<"/user", "/hand", "/right">>
\* A proper prefix of the hand paths: the path of no device.
HAND_PREFIX == <<"/user", "/hand">>

TRIGGER_VALUE == <<"/input", "/trigger", "/value">>
TRIGGER_TOUCH == <<"/input", "/trigger", "/touch">>
SQUEEZE_VALUE == <<"/input", "/squeeze", "/value">>
THUMBSTICK == <<"/input", "/thumbstick">>
THUMBSTICK_X == <<"/input", "/thumbstick", "/x">>
THUMBSTICK_Y == <<"/input", "/thumbstick", "/y">>
THUMBSTICK_CLICK == <<"/input", "/thumbstick", "/click">>
THUMBSTICK_TOUCH == <<"/input", "/thumbstick", "/touch">>
\* The path of no component of any profile.
NO_SUCH_COMPONENT == <<"/input", "/dial">>
TRACKPAD == <<"/input", "/trackpad">>

\* ---- Schema: ComponentDef, DeviceDef, DeviceProfile ----
ComponentType == {"FLOAT", "BOOLEAN", "VEC2"}

Vec2Axis == {"NONE", "X", "Y"}

\* A ComponentDef with the defaulted members left at their defaults.
Comp(path, type) ==
    [path |-> path, type |-> type, hand_restriction |-> NULLSTR,
     linked_vec2_path |-> NULLSTR, linked_axis |-> "NONE"]

\* A ComponentDef that sets linked_vec2_path and linked_axis.
LinkedComp(path, type, vec2_path, axis) ==
    [path |-> path, type |-> type, hand_restriction |-> NULLSTR,
     linked_vec2_path |-> vec2_path, linked_axis |-> axis]

Button(a, b) == <<"/input", a, b>>

OCULUS_TOUCH_COMPONENTS ==
    << Comp(TRIGGER_VALUE, "FLOAT"),
       Comp(TRIGGER_TOUCH, "BOOLEAN"),
       Comp(SQUEEZE_VALUE, "FLOAT"),
       Comp(THUMBSTICK, "VEC2"),
       Comp(THUMBSTICK_X, "FLOAT"),
       Comp(THUMBSTICK_Y, "FLOAT"),
       Comp(THUMBSTICK_CLICK, "BOOLEAN"),
       Comp(THUMBSTICK_TOUCH, "BOOLEAN"),
       Comp(Button("/x", "/click"), "BOOLEAN"),
       Comp(Button("/x", "/touch"), "BOOLEAN"),
       Comp(Button("/y", "/click"), "BOOLEAN"),
       Comp(Button("/y", "/touch"), "BOOLEAN"),
       Comp(Button("/a", "/click"), "BOOLEAN"),
       Comp(Button("/a", "/touch"), "BOOLEAN"),
       Comp(Button("/b", "/click"), "BOOLEAN"),
       Comp(Button("/b", "/touch"), "BOOLEAN"),
       Comp(Button("/menu", "/click"), "BOOLEAN") >>

\* A component list that declares linkage: a Vec2 with its two axis Floats,
\* and a Boolean beside them.
LINKED_STICK_COMPONENTS ==
    << Comp(THUMBSTICK, "VEC2"),
       LinkedComp(THUMBSTICK_X, "FLOAT", THUMBSTICK, "X"),
       LinkedComp(THUMBSTICK_Y, "FLOAT", THUMBSTICK, "Y"),
       Comp(TRIGGER_TOUCH, "BOOLEAN") >>

\* A component list that sets every optional member of ComponentDef somewhere:
\* the linked axis Floats of a Vec2, linkage on a Boolean and on a Vec2,
\* a Float linked to a path the list does not have and one linked to a
\* Boolean, and a component restricted to the left hand.
PAIRED_COMPONENTS ==
    << Comp(THUMBSTICK, "VEC2"),
       LinkedComp(THUMBSTICK_X, "FLOAT", THUMBSTICK, "X"),
       LinkedComp(THUMBSTICK_Y, "FLOAT", THUMBSTICK, "Y"),
       LinkedComp(TRIGGER_TOUCH, "BOOLEAN", THUMBSTICK, "X"),
       LinkedComp(TRACKPAD, "VEC2", THUMBSTICK, "Y"),
       LinkedComp(TRIGGER_VALUE, "FLOAT", NO_SUCH_COMPONENT, "X"),
       LinkedComp(SQUEEZE_VALUE, "FLOAT", TRIGGER_TOUCH, "X"),
       [Comp(THUMBSTICK_CLICK, "BOOLEAN") EXCEPT !.hand_restriction = HAND_LEFT] >>

Pose(px, py, pz) ==
    [position |-> <<px, py, pz>>, orientation |-> <<0, 0, 0, ONE>>]

ZERO_POSE == [position |-> <<0, 0, 0>>, orientation |-> <<0, 0, 0, 0>>]

HEAD_POSE == Pose(0, 160, 0)
LEFT_POSE == Pose(-20, 140, -30)
RIGHT_POSE == Pose(20, 140, -30)
\* A pose that is the default of no device.
MOVED_POSE == Pose(50, 100, -100)

Device(user_path, role, always_active, default_pose, components) ==
    [user_path |-> user_path, role |-> role, always_active |-> always_active,
     default_pose |-> default_pose, components |-> components]

QUEST_2_PROFILE ==
    [type |-> "OCULUS_QUEST_2",
     name |-> "Meta Quest 2 (Simulated)",
     interaction_profile |-> "/interaction_profiles/oculus/touch_controller",
     devices |->
        << Device(HEAD, "hmd", TRUE, HEAD_POSE, <<>>),
           Device(HAND_LEFT, "left_controller", FALSE, LEFT_POSE,
                  OCULUS_TOUCH_COMPONENTS),
           Device(HAND_RIGHT, "right_controller", FALSE, RIGHT_POSE,
                  OCULUS_TOUCH_COMPONENTS) >>]

\* A profile whose right controller declares linked axes (ComponentDef's
\* linked_vec2_path / linked_axis); no shipped component list sets them.
LINKED_PROFILE ==
    [type |-> "LINKED",
     name |-> "Linked thumbstick rig",
     interaction_profile |-> "/interaction_profiles/linked",
     devices |->
        << Device(HEAD, "hmd", TRUE, HEAD_POSE, <<>>),
           Device(HAND_LEFT, "left_controller", FALSE, LEFT_POSE, <<>>),
           Device(HAND_RIGHT, "right_controller", FALSE, RIGHT_POSE,
                  LINKED_STICK_COMPONENTS) >>]

\* A profile whose two controllers share one component list, as the shipped
\* profiles' controllers do.  It has no entry in NAME_TO_TYPE: callers pass
\* its address to Initialize.
PAIRED_PROFILE ==
    [type |-> "PAIRED",
     name |-> "Paired controllers",
     interaction_profile |-> "/interaction_profiles/paired",
     devices |->
        << Device(HEAD, "hmd", TRUE, HEAD_POSE, <<>>),
           Device(HAND_LEFT, "left_controller", FALSE, LEFT_POSE, PAIRED_COMPONENTS),
           Device(HAND_RIGHT, "right_controller", FALSE, RIGHT_POSE,
                  PAIRED_COMPONENTS) >>]

TrackerPath(i) == <<"/user", "/tracker", ToString(i)>>

\* A profile with more Device Templates than DeviceState has slots: the
\* headset, a controller, and trackers up to OX_MAX_DEVICES + Oversize.
OVERSIZE_PROFILE ==
    [type |-> "OVERSIZE",
     name |-> "Tracker rig",
     interaction_profile |-> "/interaction_profiles/trackers",
     devices |->
        [i \in 1..(OX_MAX_DEVICES + Oversize) |->
            IF i = 1 THEN Device(HEAD, "hmd", TRUE, HEAD_POSE, <<>>)
            ELSE IF i = 2
                 THEN Device(HAND_RIGHT, "right_controller", FALSE, RIGHT_POSE,
                             <<Comp(TRIGGER_TOUCH, "BOOLEAN")>>)
                 ELSE Device(TrackerPath(i), "tracker", TRUE, Pose(i, ONE, 0),
                             <<>>)]]

\* NAME_TO_TYPE followed by GetDeviceProfile, for the names the model uses.
ProfileNames == {"oculus_quest_2", "linked", "oversize"}

ProfileOf(p) ==
    CASE p = "oculus_quest_2" -> QUEST_2_PROFILE
      [] p = "linked" -> LINKED_PROFILE
      [] p = "oversize" -> OVERSIZE_PROFILE
      [] p = "paired" -> PAIRED_PROFILE

\* The i-th (0-based) DeviceDef of a profile: profile->devices[i].
DevAt(p, i) == ProfileOf(p).devices[i + 1]

NumDevices(p) == Len(ProfileOf(p).devices)

\* The k-th (0-based) ComponentDef of a device definition.
CompAt(dev_def, k) == dev_def.components[k + 1]

\* ---- Runtime values ----
BoolValue(b) == [tag |-> "bool", x |-> IF b THEN 1 ELSE 0, y |-> 0]
FloatValue(f) == [tag |-> "float", x |-> f, y |-> 0]
Vec2Value(vx, vy) == [tag |-> "vec2", x |-> vx, y |-> vy]

\* The alternative of the variant that holds a value of the given kind.
TagOf(type) ==
    CASE type = "FLOAT" -> "float"
      [] type = "BOOLEAN" -> "bool"
      [] type = "VEC2" -> "vec2"

\* The value Initialize stores for a component of the given kind.
ZeroValue(type) ==
    CASE type = "FLOAT" -> FloatValue(0)
      [] type = "BOOLEAN" -> BoolValue(FALSE)
      [] type = "VEC2" -> Vec2Value(0, 0)

\* strncpy(dst, src, sizeof(dst) - 1) and the terminating '\0'.
StrNCpy(path) == SubSeq(path, 1, Min(Len(path), USER_PATH_CAP))

\* DeviceState after SimulatorCore's constructor: state_{} and device_count 0.
EmptyState ==
    [device_count |-> 0,
     devices |-> [i \in 0..(OX_MAX_DEVICES - 1) |->
                    [user_path |-> <<>>, pose |-> ZERO_POSE, is_active |-> 0]],
     device_inputs |-> [i \in 0..(OX_MAX_DEVICES - 1) |-> [values |-> <<>>]]]

\* ---- Lookup helpers ----
\* What a search loop that returns at its first hit finds: the least of the
\* indices that match, -1 when none does.
FirstHit(hits) ==
    IF hits = {} THEN -1 ELSE CHOOSE i \in hits : \A j \in hits : i <= j

\* FindDeviceIndexByUserPath comparing only as many characters as the path
\* asked for has, so that a prefix of a device's path finds the device.
FindDeviceIndexByUserPath_PrefixMatch(st, user_path) ==
    FirstHit({i \in 0..(OX_MAX_DEVICES - 1) :
                 /\ i < st.device_count
                 /\ Len(user_path) <= Len(st.devices[i].user_path)
                 /\ SubSeq(st.devices[i].user_path, 1, Len(user_path)) = user_path})

FindDeviceIndexByUserPath(st, user_path) ==
    FirstHit({i \in 0..(OX_MAX_DEVICES - 1) :
                 /\ i < st.device_count
                 /\ st.devices[i].user_path = user_path})

\* The index in profile->devices of the DeviceDef found, -1 for nullptr.
FindDeviceDefByUserPath(p, user_path) ==
    IF p = NULLPROFILE THEN -1
    ELSE FirstHit({i \in 0..(NumDevices(p) - 1) :
                      DevAt(p, i).user_path = user_path})

\* CompsWithPath comparing only as many characters as the template's path
\* has, so that "/input/thumbstick" matches a request for its x axis.
CompsWithPath_TemplatePrefix(dev_def, component_path) ==
    {k \in 0..(Len(dev_def.components) - 1) :
        /\ Len(CompAt(dev_def, k).path) <= Len(component_path)
        /\ SubSeq(component_path, 1, Len(CompAt(dev_def, k).path))
              = CompAt(dev_def, k).path}

\* The components of a device definition with the given path.
CompsWithPath(dev_def, component_path) ==
    {k \in 0..(Len(dev_def.components) - 1) :
        CompAt(dev_def, k).path = component_path}

\* The pair FindComponentInfo returns for the component found at index k.
ComponentInfoAt(dev_def, k) ==
    IF k = -1 THEN [index |-> -1, type |-> "FLOAT"]
    ELSE [index |-> k, type |-> CompAt(dev_def, k).type]

\* device_def is a DeviceDef record; the caller has tested it for nullptr.
FindComponentInfo(dev_def, component_path) ==
    ComponentInfoAt(dev_def, FirstHit(CompsWithPath(dev_def, component_path)))

\* [input, index, type]: input is the index of the DeviceInputState in
\* state_.device_inputs, -1 for nullptr.
NotValidated == [input |-> -1, index |-> -1, type |-> "FLOAT"]

ValidatedComponent(device_index, info) ==
    IF info.index = -1 THEN NotValidated
    ELSE [input |-> device_index, index |-> info.index, type |-> info.type]

ValidatedDevice(p, device_index, device_def, component_path) ==
    IF device_index < 0 \/ device_def < 0 THEN NotValidated
    ELSE ValidatedComponent(device_index,
                            FindComponentInfo(DevAt(p, device_def), component_path))

ValidateDeviceAndComponent(p, st, user_path, component_path) ==
    ValidatedDevice(p, FindDeviceIndexByUserPath(st, user_path),
                    FindDeviceDefByUserPath(p, user_path), component_path)

\* ---- Critical sections of SimulatorCore ----
\* Each operator is the body of one std::lock_guard scope, as a function of
\* the members it reads (p is profile_, st is state_).

\* The OxDeviceState Initialize builds from a DeviceDef.
RuntimeDevice(dev_def) ==
    [user_path |-> StrNCpy(dev_def.user_path),
     pose |-> dev_def.default_pose,
     is_active |-> IF dev_def.always_active THEN 1 ELSE 0]

\* The DeviceInputState Initialize builds from a DeviceDef.
RuntimeInputs(dev_def) ==
    [values |-> [k \in 0..(Len(dev_def.components) - 1) |->
                    ZeroValue(CompAt(dev_def, k).type)]]

\* InitializeDevices resizing the value vectors and stopping there: a value
\* an earlier profile left at an index stays, only new indices get a default.
InitializeDevices_ResizeOnly(st, profile, count) ==
    [device_count |-> count,
     devices |->
         [i \in 0..(OX_MAX_DEVICES - 1) |->
             IF i < count THEN RuntimeDevice(DevAt(profile, i))
             ELSE st.devices[i]],
     device_inputs |->
         [i \in 0..(OX_MAX_DEVICES - 1) |->
             IF i < count
             THEN [values |->
                      [k \in 0..(Len(DevAt(profile, i).components) - 1) |->
                          IF k \in DOMAIN st.device_inputs[i].values
                          THEN st.device_inputs[i].values[k]
                          ELSE ZeroValue(CompAt(DevAt(profile, i), k).type)]]
             ELSE st.device_inputs[i]]]

\* The loop of Initialize over the first count devices; the slots beyond
\* keep what they held.
InitializeDevices(st, profile, count) ==
    [device_count |-> count,
     devices |->
         [i \in 0..(OX_MAX_DEVICES - 1) |->
             IF i < count THEN RuntimeDevice(DevAt(profile, i))
             ELSE st.devices[i]],
     device_inputs |->
         [i \in 0..(OX_MAX_DEVICES - 1) |->
             IF i < count THEN RuntimeInputs(DevAt(profile, i))
             ELSE st.device_inputs[i]]]

\* InitializeState with the device count capped one short of the array size.
InitializeState_CapOffByOne(st, profile) ==
    InitializeDevices(st, profile, Min(OX_MAX_DEVICES - 1, NumDevices(profile)))

\* InitializeState with every device starting inactive, always_active or not.
InitializeState_AllInactive(st, profile) ==
    LET built == InitializeDevices(st, profile,
                                   Min(OX_MAX_DEVICES, NumDevices(profile)))
    IN [built EXCEPT !.devices =
           [i \in 0..(OX_MAX_DEVICES - 1) |->
               IF i < built.device_count
               THEN [built.devices[i] EXCEPT !.is_active = 0]
               ELSE built.devices[i]]]

\* The DeviceState Initialize builds once profile was found non-null.
InitializeState(st, profile) ==
    InitializeDevices(st, profile, Min(OX_MAX_DEVICES, NumDevices(profile)))

\* Shutdown leaving device_count as it is.
ShutdownState_KeepsCount(st) == st

\* Shutdown leaves the arrays as they are and forgets how many are in use.
ShutdownState(st) == [st EXCEPT !.device_count = 0]

\* [found, pose, is_active] for the runtime device at device_index.
DevicePoseAt(st, device_index) ==
    IF device_index < 0
    THEN [found |-> FALSE, pose |-> ZERO_POSE, is_active |-> FALSE]
    ELSE [found |-> TRUE,
          pose |-> st.devices[device_index].pose,
          is_active |-> st.devices[device_index].is_active # 0]

GetDevicePoseResult(st, user_path) ==
    DevicePoseAt(st, FindDeviceIndexByUserPath(st, user_path))

\* device_def ? device_def->always_active : false
DeviceAlwaysActive(p, device_def) ==
    IF device_def >= 0 THEN DevAt(p, device_def).always_active ELSE FALSE

\* SetDevicePoseAt storing the pose in every slot of the array.
SetDevicePoseAt_EverySlot(st, device_index, pose, is_active, device_always_active) ==
    IF device_index < 0 THEN st
    ELSE [st EXCEPT
            !.devices = [j \in DOMAIN st.devices |->
                            [st.devices[j] EXCEPT !.pose = pose]],
            !.devices[device_index].is_active =
                IF device_always_active THEN 1
                ELSE IF is_active THEN 1 ELSE 0]

SetDevicePoseAt(st, device_index, pose, is_active, device_always_active) ==
    IF device_index < 0 THEN st
    ELSE [st EXCEPT
            !.devices[device_index].pose = pose,
            !.devices[device_index].is_active =
                IF device_always_active THEN 1
                ELSE IF is_active THEN 1 ELSE 0]

\* SetDevicePoseState storing the caller's flag whatever the template says.
SetDevicePoseState_FlagAsPassed(p, st, user_path, pose, is_active) ==
    SetDevicePoseAt(st, FindDeviceIndexByUserPath(st, user_path), pose,
                    is_active, FALSE)

SetDevicePoseState(p, st, user_path, pose, is_active) ==
    SetDevicePoseAt(st, FindDeviceIndexByUserPath(st, user_path), pose,
                    is_active,
                    DeviceAlwaysActive(p, FindDeviceDefByUserPath(p, user_path)))

\* std::get on an alternative the variant does not hold throws.
BadVariantAccess == [result |-> "bad_variant_access", x |-> 0, y |-> 0]

\* ReadAs rejecting every accessor whose kind is not the declared kind.
ReadAs_NoCoercion(CT, type, val) ==
    IF type = CT
    THEN IF val.tag # TagOf(CT) THEN BadVariantAccess
         ELSE [result |-> "OX_COMPONENT_AVAILABLE", x |-> val.x, y |-> val.y]
    ELSE [result |-> "OX_COMPONENT_UNAVAILABLE", x |-> 0, y |-> 0]

\* What GetInputState<CT, T> reports for the stored value val of a component
\* of the declared kind type: [result, x, y], a bool as 0 / 1.
\* ReadAs with a threshold that excludes 0.5 when it reads a Float as a
\* Boolean, unlike the setter's.
ReadAs_StrictThreshold(CT, type, val) ==
    IF type = CT
    THEN IF val.tag # TagOf(CT) THEN BadVariantAccess
         ELSE [result |-> "OX_COMPONENT_AVAILABLE", x |-> val.x, y |-> val.y]
    ELSE IF CT = "FLOAT" /\ type = "BOOLEAN"
    THEN IF val.tag # "bool" THEN BadVariantAccess
         ELSE [result |-> "OX_COMPONENT_AVAILABLE",
               x |-> IF val.x = 1 THEN ONE ELSE 0, y |-> 0]
    ELSE IF CT = "BOOLEAN" /\ type = "FLOAT"
    THEN IF val.tag # "float" THEN BadVariantAccess
         ELSE [result |-> "OX_COMPONENT_AVAILABLE",
               x |-> IF val.x > HALF THEN 1 ELSE 0, y |-> 0]
    ELSE [result |-> "OX_COMPONENT_UNAVAILABLE", x |-> 0, y |-> 0]

ReadAs(CT, type, val) ==
    IF type = CT
    THEN IF val.tag # TagOf(CT) THEN BadVariantAccess
         ELSE [result |-> "OX_COMPONENT_AVAILABLE", x |-> val.x, y |-> val.y]
    ELSE IF CT = "FLOAT" /\ type = "BOOLEAN"
    THEN IF val.tag # "bool" THEN BadVariantAccess
         ELSE [result |-> "OX_COMPONENT_AVAILABLE",
               x |-> IF val.x = 1 THEN ONE ELSE 0, y |-> 0]
    ELSE IF CT = "BOOLEAN" /\ type = "FLOAT"
    THEN IF val.tag # "float" THEN BadVariantAccess
         ELSE [result |-> "OX_COMPONENT_AVAILABLE",
               x |-> IF val.x >= HALF THEN 1 ELSE 0, y |-> 0]
    ELSE [result |-> "OX_COMPONENT_UNAVAILABLE", x |-> 0, y |-> 0]

\* GetInputState<CT, T> once the device and the component are validated as v.
GetInputStateAt(CT, st, v) ==
    IF v.input = -1 \/ v.index = -1
    THEN [result |-> "OX_COMPONENT_UNAVAILABLE", x |-> 0, y |-> 0]
    ELSE ReadAs(CT, v.type, st.device_inputs[v.input].values[v.index])

\* GetInputState<CT, T>: CT is the accessor's kind.
GetInputStateResult(CT, p, st, user_path, component_path) ==
    GetInputStateAt(CT, st,
                    ValidateDeviceAndComponent(p, st, user_path, component_path))

\* ValueOf clamping a Float to [0.0, 1.0].
ValueOf_ClampsFloat(CT, x, y) ==
    CASE CT = "FLOAT" -> FloatValue(IF x < 0 THEN 0 ELSE IF x > ONE THEN ONE ELSE x)
      [] CT = "BOOLEAN" -> BoolValue(x # 0)
      [] CT = "VEC2" -> Vec2Value(x, y)

\* The InputValue a T of kind CT converts to: value is [x, y] as in a call.
ValueOf(CT, x, y) ==
    CASE CT = "FLOAT" -> FloatValue(x)
      [] CT = "BOOLEAN" -> BoolValue(x # 0)
      [] CT = "VEC2" -> Vec2Value(x, y)

\* SetInputStateAt storing the value as passed when exactly one of the two
\* kinds is Vec2.
SetInputStateAt_Vec2Unchecked(CT, st, v, x, y) ==
    IF v.input = -1 \/ v.index = -1 THEN st
    ELSE IF v.type = CT
    THEN [st EXCEPT !.device_inputs[v.input].values[v.index] = ValueOf(CT, x, y)]
    ELSE IF CT = "FLOAT" /\ v.type = "BOOLEAN"
    THEN [st EXCEPT !.device_inputs[v.input].values[v.index] = BoolValue(x >= HALF)]
    ELSE IF CT = "BOOLEAN" /\ v.type = "FLOAT"
    THEN [st EXCEPT !.device_inputs[v.input].values[v.index] =
                         FloatValue(IF x # 0 THEN ONE ELSE 0)]
    ELSE [st EXCEPT !.device_inputs[v.input].values[v.index] = ValueOf(CT, x, y)]

\* SetInputState<CT, T> once the device and the component are validated as v.
SetInputStateAt(CT, st, v, x, y) ==
    IF v.input = -1 \/ v.index = -1 THEN st
    ELSE IF v.type = CT
    THEN [st EXCEPT !.device_inputs[v.input].values[v.index] = ValueOf(CT, x, y)]
    ELSE IF CT = "FLOAT" /\ v.type = "BOOLEAN"
    THEN [st EXCEPT !.device_inputs[v.input].values[v.index] = BoolValue(x >= HALF)]
    ELSE IF CT = "BOOLEAN" /\ v.type = "FLOAT"
    THEN [st EXCEPT !.device_inputs[v.input].values[v.index] =
                         FloatValue(IF x # 0 THEN ONE ELSE 0)]
    ELSE st

\* SetInputStateState storing the value in the accessor's kind, without
\* converting it to the declared kind.
SetInputStateState_StoresAccessorKind(CT, p, st, user_path, component_path, x, y) ==
    LET v == ValidateDeviceAndComponent(p, st, user_path, component_path)
    IN IF v.input = -1 \/ v.index = -1 THEN st
       ELSE IF v.type = "VEC2" /\ CT # "VEC2" THEN st
       ELSE IF v.type # "VEC2" /\ CT = "VEC2" THEN st
       ELSE [st EXCEPT !.device_inputs[v.input].values[v.index] = ValueOf(CT, x, y)]

\* SetInputState<CT, T>
SetInputStateState(CT, p, st, user_path, component_path, x, y) ==
    SetInputStateAt(CT, st,
                    ValidateDeviceAndComponent(p, st, user_path, component_path),
                    x, y)

\* SyncLinkedVec2FromFloat from the linkage checks on: src_def is the source
\* component's definition, float and vec2 what FindComponentInfo returns for
\* the source path and for the linked path.
\* SyncVec2FromFloatLinked assigning a whole Vec2: the named axis from the
\* Float, the other axis zero.
SyncVec2FromFloatLinked_WholeVec2(st, device_index, src_def, float, vec2) ==
    IF src_def.linked_vec2_path = NULLSTR \/ src_def.linked_axis = "NONE" THEN st
    ELSE IF src_def.type # "FLOAT" THEN st
    ELSE IF device_index < 0 THEN st
    ELSE IF float.index = -1 \/ float.type # "FLOAT" THEN st
    ELSE IF st.device_inputs[device_index].values[float.index].tag # "float" THEN st
    ELSE IF vec2.index = -1 \/ vec2.type # "VEC2" THEN st
    ELSE IF st.device_inputs[device_index].values[vec2.index].tag # "vec2" THEN st
    ELSE IF src_def.linked_axis = "X"
    THEN [st EXCEPT !.device_inputs[device_index].values[vec2.index] =
                        Vec2Value(st.device_inputs[device_index].values[float.index].x, 0)]
    ELSE [st EXCEPT !.device_inputs[device_index].values[vec2.index] =
                        Vec2Value(0, st.device_inputs[device_index].values[float.index].x)]

SyncVec2FromFloatLinked(st, device_index, src_def, float, vec2) ==
    IF src_def.linked_vec2_path = NULLSTR \/ src_def.linked_axis = "NONE" THEN st
    ELSE IF src_def.type # "FLOAT" THEN st
    ELSE IF device_index < 0 THEN st
    ELSE IF float.index = -1 \/ float.type # "FLOAT" THEN st
    ELSE IF st.device_inputs[device_index].values[float.index].tag # "float" THEN st
    ELSE IF vec2.index = -1 \/ vec2.type # "VEC2" THEN st
    ELSE IF st.device_inputs[device_index].values[vec2.index].tag # "vec2" THEN st
    ELSE IF src_def.linked_axis = "X"
    THEN [st EXCEPT !.device_inputs[device_index].values[vec2.index].x =
                        st.device_inputs[device_index].values[float.index].x]
    ELSE [st EXCEPT !.device_inputs[device_index].values[vec2.index].y =
                        st.device_inputs[device_index].values[float.index].x]

\* SyncLinkedVec2FromFloat once the search loop for the source component
\* ended at index src of dev_def's components (-1: not found).
SyncVec2FromFloatSource(st, device_index, dev_def, src, component_path) ==
    IF src = -1 THEN st
    ELSE SyncVec2FromFloatLinked(
             st, device_index, CompAt(dev_def, src),
             FindComponentInfo(dev_def, component_path),
             FindComponentInfo(dev_def, CompAt(dev_def, src).linked_vec2_path))

\* SyncLinkedVec2FromFloat once the device is looked up in the profile
\* (dev_def_i) and in the state (device_index).
SyncVec2FromFloatDevice(p, st, dev_def_i, device_index, component_path) ==
    IF dev_def_i < 0 THEN st
    ELSE SyncVec2FromFloatSource(
             st, device_index, DevAt(p, dev_def_i),
             FirstHit(CompsWithPath(DevAt(p, dev_def_i), component_path)),
             component_path)

\* SyncLinkedVec2FromFloatState with the two axes taken for each other.
SyncLinkedVec2FromFloatState_AxesSwapped(p, st, user_path, component_path) ==
    LET dev_def_i == FindDeviceDefByUserPath(p, user_path)
        device_index == FindDeviceIndexByUserPath(st, user_path)
    IN IF dev_def_i < 0 \/ device_index < 0 THEN st
       ELSE
       LET dev_def == DevAt(p, dev_def_i)
           float == FindComponentInfo(dev_def, component_path)
       IN IF float.index = -1 \/ float.type # "FLOAT" THEN st
          ELSE
          LET src_def == CompAt(dev_def, float.index)
              vec2 == FindComponentInfo(dev_def, src_def.linked_vec2_path)
              axis_val == st.device_inputs[device_index].values[float.index].x
          IN IF src_def.linked_axis = "NONE" THEN st
             ELSE IF vec2.index = -1 \/ vec2.type # "VEC2" THEN st
             ELSE IF src_def.linked_axis = "X"
             THEN [st EXCEPT !.device_inputs[device_index].values[vec2.index].y = axis_val]
             ELSE [st EXCEPT !.device_inputs[device_index].values[vec2.index].x = axis_val]

SyncLinkedVec2FromFloatState(p, st, user_path, component_path) ==
    SyncVec2FromFloatDevice(p, st, FindDeviceDefByUserPath(p, user_path),
                            FindDeviceIndexByUserPath(st, user_path),
                            component_path)

\* LinkedTo accepting a linked component of any kind.
LinkedTo_AnyKind(c_def, vec2_path) ==
    /\ c_def.linked_vec2_path # NULLSTR
    /\ c_def.linked_vec2_path = vec2_path
    /\ c_def.linked_axis # "NONE"

\* Whether SyncLinkedFloatsFromVec2 updates the component defined as c_def.
LinkedTo(c_def, vec2_path) ==
    /\ c_def.type = "FLOAT"
    /\ c_def.linked_vec2_path # NULLSTR
    /\ c_def.linked_vec2_path = vec2_path
    /\ c_def.linked_axis # "NONE"

\* (linked_axis == Vec2Axis::X) ? vec2_val.x : vec2_val.y
AxisOf(linked_axis, vec2_val) ==
    IF linked_axis = "X" THEN vec2_val.x ELSE vec2_val.y

\* SyncLinkedFloatsFromVec2 once FindComponentInfo returned vec2 for the path.
SyncFloatsFromVec2Linked(st, device_index, dev_def, vec2, component_path) ==
    IF vec2.index = -1 \/ vec2.type # "VEC2" THEN st
    ELSE IF st.device_inputs[device_index].values[vec2.index].tag # "vec2" THEN st
    ELSE [st EXCEPT !.device_inputs[device_index].values =
             [idx \in DOMAIN @ |->
                 IF LinkedTo(CompAt(dev_def, idx), component_path)
                 THEN FloatValue(AxisOf(CompAt(dev_def, idx).linked_axis,
                                        @[vec2.index]))
                 ELSE @[idx]]]

\* SyncLinkedFloatsFromVec2 once the device is looked up in the profile
\* (dev_def_i) and in the state (device_index).
SyncFloatsFromVec2Device(p, st, dev_def_i, device_index, component_path) ==
    IF dev_def_i < 0 THEN st
    ELSE IF device_index < 0 THEN st
    ELSE SyncFloatsFromVec2Linked(
             st, device_index, DevAt(p, dev_def_i),
             FindComponentInfo(DevAt(p, dev_def_i), component_path),
             component_path)

\* SyncLinkedFloatsFromVec2 updating the linked Floats of every runtime
\* device from the Vec2 written on the device at user_path.
SyncLinkedFloatsFromVec2State_EveryDevice(p, st, user_path, component_path) ==
    LET dev_def_i == FindDeviceDefByUserPath(p, user_path)
        device_index == FindDeviceIndexByUserPath(st, user_path)
    IN IF dev_def_i < 0 \/ device_index < 0 THEN st
       ELSE
       LET vec2 == FindComponentInfo(DevAt(p, dev_def_i), component_path)
       IN IF vec2.index = -1 \/ vec2.type # "VEC2" THEN st
          ELSE
          [st EXCEPT !.device_inputs =
              [j \in DOMAIN @ |->
                  IF j >= st.device_count THEN @[j]
                  ELSE [@[j] EXCEPT !.values =
                          [idx \in DOMAIN @ |->
                              IF LinkedTo(CompAt(DevAt(p, j), idx), component_path)
                              THEN FloatValue(AxisOf(
                                       CompAt(DevAt(p, j), idx).linked_axis,
                                       st.device_inputs[device_index].values[vec2.index]))
                              ELSE @[idx]]]]]

SyncLinkedFloatsFromVec2State(p, st, user_path, component_path) ==
    SyncFloatsFromVec2Device(p, st, FindDeviceDefByUserPath(p, user_path),
                             FindDeviceIndexByUserPath(st, user_path),
                             component_path)

\* ---- Callers ----
\* The threads that call into the engine (spec section 5): the HTTP handler
\* thread and the GUI render thread.
Threads == {"http", "gui"}

NoThread == "none"

\* What a caller passed: one record shape for every operation, the
\* parameters an operation does not have left at their defaults.
Args(op, profile, user_path, component_path, x, y, pose, is_active) ==
    [op |-> op, profile |-> profile, user_path |-> user_path,
     component_path |-> component_path, x |-> x, y |-> y, pose |-> pose,
     is_active |-> is_active]

NoCall == Args("none", NULLPROFILE, NULLSTR, NULLSTR, 0, 0, ZERO_POSE, FALSE)

\* What a call returned and wrote to its out-parameters; out_states is the
\* part of the caller's array that UpdateAllDevices wrote.
Result(result, x, y, pose, is_active, out_count, profile) ==
    [result |-> result, x |-> x, y |-> y, pose |-> pose,
     is_active |-> is_active, out_count |-> out_count, profile |-> profile,
     out_states |-> <<>>]

NoResult == Result("none", 0, 0, ZERO_POSE, FALSE, 0, NULLPROFILE)

Returned(result) == Result(result, 0, 0, ZERO_POSE, FALSE, 0, NULLPROFILE)

InputResult(r) == Result(r.result, r.x, r.y, ZERO_POSE, FALSE, 0, NULLPROFILE)

PoseResult(r) ==
    Result(IF r.found THEN "true" ELSE "false", 0, 0, r.pose, r.is_active, 0,
           NULLPROFILE)

\* What the HTTP server answered last: the request, its arguments, the
\* status code and the body (a value read is in x, y).
Response(request, device, user_path, component_path, status, body, x, y) ==
    [request |-> request, device |-> device, user_path |-> user_path,
     component_path |-> component_path, status |-> status, body |-> body,
     x |-> x, y |-> y]

NoRequest == Response("none", "", NULLSTR, NULLSTR, 0, "", 0, 0)

\* ---- Inputs of the single-caller specification ----
SeqCaller == "gui"

SeqProfiles == ProfileNames

\* Device paths passed to the pose calls, and to the input calls.
SeqUserPaths == {HEAD, HAND_RIGHT, HAND_PREFIX}

SeqInputUserPaths == {HAND_RIGHT, HAND_PREFIX}

SeqComponentPaths == {TRIGGER_VALUE, TRIGGER_TOUCH, THUMBSTICK, THUMBSTICK_X,
                      NO_SUCH_COMPONENT}

\* The (device path, component path) pairs passed to the input calls: every
\* component path on the right hand, and one on the path that is no device.
SeqBindings ==
    ({HAND_RIGHT} \X SeqComponentPaths) \cup {<<HAND_PREFIX, TRIGGER_VALUE>>}

FloatInputs == {70}

Vec2Inputs == {<<-50, 25>>}

BoolInputs == {0, 1}

\* ---- Whole calls made by one caller at a time ----
\* With a single caller every public operation runs from call to return
\* without interference: its critical sections compose.

Done(c, r) ==
    /\ call' = [call EXCEPT ![SeqCaller] = c]
    /\ ret' = [ret EXCEPT ![SeqCaller] = r]
    /\ UNCHANGED <<mutex, pc, g_device_profile, http>>

\* Initialize tearing the engine down before it rejects a null profile.
Initialize_NullShutsDown(profile) ==
    /\ IF profile = NULLPROFILE
       THEN /\ profile_' = NULLPROFILE
            /\ state_' = ShutdownState(state_)
            /\ Done(Args("Initialize", profile, NULLSTR, NULLSTR, 0, 0, ZERO_POSE, FALSE),
                    Returned("false"))
       ELSE /\ profile_' = profile
            /\ state_' = InitializeState(state_, profile)
            /\ Done(Args("Initialize", profile, NULLSTR, NULLSTR, 0, 0, ZERO_POSE, FALSE),
                    Returned("true"))

Initialize(profile) ==
    /\ IF profile = NULLPROFILE
       THEN /\ UNCHANGED <<profile_, state_>>
            /\ Done(Args("Initialize", profile, NULLSTR, NULLSTR, 0, 0, ZERO_POSE, FALSE),
                    Returned("false"))
       ELSE /\ profile_' = profile
            /\ state_' = InitializeState(state_, profile)
            /\ Done(Args("Initialize", profile, NULLSTR, NULLSTR, 0, 0, ZERO_POSE, FALSE),
                    Returned("true"))

Shutdown ==
    /\ profile_' = NULLPROFILE
    /\ state_' = ShutdownState(state_)
    /\ Done(Args("Shutdown", NULLPROFILE, NULLSTR, NULLSTR, 0, 0, ZERO_POSE, FALSE),
            Returned("void"))

\* SwitchDevice returning at once when the profile asked for is the bound one.
SwitchDevice_KeepsBoundProfile(profile) ==
    /\ IF profile = NULLPROFILE
       THEN /\ profile_' = NULLPROFILE
            /\ state_' = ShutdownState(state_)
            /\ Done(Args("SwitchDevice", profile, NULLSTR, NULLSTR, 0, 0, ZERO_POSE, FALSE),
                    Returned("false"))
       ELSE /\ profile_' = profile
            /\ \E down \in {ShutdownState(state_)} :
                  state_' = IF profile = profile_ THEN state_
                            ELSE InitializeState(down, profile)
            /\ Done(Args("SwitchDevice", profile, NULLSTR, NULLSTR, 0, 0, ZERO_POSE, FALSE),
                    Returned("true"))

\* SwitchDevice rejecting a null profile before it shuts the engine down.
SwitchDevice_NullChecksFirst(profile) ==
    /\ IF profile = NULLPROFILE
       THEN /\ UNCHANGED <<profile_, state_>>
            /\ Done(Args("SwitchDevice", profile, NULLSTR, NULLSTR, 0, 0, ZERO_POSE, FALSE),
                    Returned("false"))
       ELSE /\ profile_' = profile
            /\ \E down \in {ShutdownState(state_)} :
                  state_' = InitializeState(down, profile)
            /\ Done(Args("SwitchDevice", profile, NULLSTR, NULLSTR, 0, 0, ZERO_POSE, FALSE),
                    Returned("true"))

SwitchDevice(profile) ==
    /\ IF profile = NULLPROFILE
       THEN /\ profile_' = NULLPROFILE
            /\ state_' = ShutdownState(state_)
            /\ Done(Args("SwitchDevice", profile, NULLSTR, NULLSTR, 0, 0, ZERO_POSE, FALSE),
                    Returned("false"))
       ELSE /\ profile_' = profile
            /\ \E down \in {ShutdownState(state_)} :
                  state_' = InitializeState(down, profile)
            /\ Done(Args("SwitchDevice", profile, NULLSTR, NULLSTR, 0, 0, ZERO_POSE, FALSE),
                    Returned("true"))

GetProfile ==
    /\ UNCHANGED <<profile_, state_>>
    /\ Done(Args("GetProfile", NULLPROFILE, NULLSTR, NULLSTR, 0, 0, ZERO_POSE, FALSE),
            Result("pointer", 0, 0, ZERO_POSE, FALSE, 0, profile_))

\* UpdateAllDevices copying one entry fewer than it reports.
UpdateAllDevicesResult_SkipsLast(st) ==
    [Result("void", 0, 0, ZERO_POSE, FALSE, st.device_count, NULLPROFILE)
        EXCEPT !.out_states =
            [i \in 0..(Min(st.device_count, OX_MAX_DEVICES) - 2) |-> st.devices[i]]]

\* *out_count = state_.device_count, and out_states[i] = state_.devices[i]
\* for i < state_.device_count && i < OX_MAX_DEVICES.
UpdateAllDevicesResult(st) ==
    [Result("void", 0, 0, ZERO_POSE, FALSE, st.device_count, NULLPROFILE)
        EXCEPT !.out_states =
            [i \in 0..(Min(st.device_count, OX_MAX_DEVICES) - 1) |-> st.devices[i]]]

UpdateAllDevices ==
    /\ UNCHANGED <<profile_, state_>>
    /\ Done(Args("UpdateAllDevices", NULLPROFILE, NULLSTR, NULLSTR, 0, 0, ZERO_POSE, FALSE),
            UpdateAllDevicesResult(state_))

GetDevicePose(user_path) ==
    /\ UNCHANGED <<profile_, state_>>
    /\ Done(Args("GetDevicePose", NULLPROFILE, user_path, NULLSTR, 0, 0, ZERO_POSE, FALSE),
            PoseResult(GetDevicePoseResult(state_, user_path)))

SetDevicePose(user_path, pose, is_active) ==
    /\ state_' = SetDevicePoseState(profile_, state_, user_path, pose, is_active)
    /\ UNCHANGED profile_
    /\ Done(Args("SetDevicePose", NULLPROFILE, user_path, NULLSTR, 0, 0, pose, is_active),
            Returned("void"))

GetInputStateBoolean(user_path, component_path) ==
    /\ UNCHANGED <<profile_, state_>>
    /\ Done(Args("GetInputStateBoolean", NULLPROFILE, user_path, component_path, 0, 0,
                 ZERO_POSE, FALSE),
            InputResult(GetInputStateResult("BOOLEAN", profile_, state_, user_path,
                                            component_path)))

GetInputStateFloat(user_path, component_path) ==
    /\ UNCHANGED <<profile_, state_>>
    /\ Done(Args("GetInputStateFloat", NULLPROFILE, user_path, component_path, 0, 0,
                 ZERO_POSE, FALSE),
            InputResult(GetInputStateResult("FLOAT", profile_, state_, user_path,
                                            component_path)))

GetInputStateVec2(user_path, component_path) ==
    /\ UNCHANGED <<profile_, state_>>
    /\ Done(Args("GetInputStateVec2", NULLPROFILE, user_path, component_path, 0, 0,
                 ZERO_POSE, FALSE),
            InputResult(GetInputStateResult("VEC2", profile_, state_, user_path,
                                            component_path)))

SetInputStateBoolean(user_path, component_path, value) ==
    /\ state_' = SetInputStateState("BOOLEAN", profile_, state_, user_path,
                                    component_path, value, 0)
    /\ UNCHANGED profile_
    /\ Done(Args("SetInputStateBoolean", NULLPROFILE, user_path, component_path, value, 0,
                 ZERO_POSE, FALSE),
            Returned("void"))

SetInputStateFloat(user_path, component_path, value) ==
    /\ \E written \in {SetInputStateState("FLOAT", profile_, state_, user_path,
                                          component_path, value, 0)} :
          state_' = SyncLinkedVec2FromFloatState(profile_, written, user_path,
                                                 component_path)
    /\ UNCHANGED profile_
    /\ Done(Args("SetInputStateFloat", NULLPROFILE, user_path, component_path, value, 0,
                 ZERO_POSE, FALSE),
            Returned("void"))

SetInputStateVec2(user_path, component_path, vx, vy) ==
    /\ \E written \in {SetInputStateState("VEC2", profile_, state_, user_path,
                                          component_path, vx, vy)} :
          state_' = SyncLinkedFloatsFromVec2State(profile_, written, user_path,
                                                  component_path)
    /\ UNCHANGED profile_
    /\ Done(Args("SetInputStateVec2", NULLPROFILE, user_path, component_path, vx, vy,
                 ZERO_POSE, FALSE),
            Returned("void"))

\* The state after SimulatorCore's constructor, nothing called yet.
Init ==
    /\ profile_ = NULLPROFILE
    /\ state_ = EmptyState
    /\ mutex = NoThread
    /\ pc = [t \in Threads |-> "idle"]
    /\ call = [t \in Threads |-> NoCall]
    /\ ret = [t \in Threads |-> NoResult]
    /\ g_device_profile = profile_
    /\ http = NoRequest

Next ==
    \/ \E profile \in SeqProfiles \cup {NULLPROFILE} : Initialize(profile)
    \/ Shutdown
    \/ \E profile \in SeqProfiles \cup {NULLPROFILE} : SwitchDevice(profile)
    \/ GetProfile
    \/ UpdateAllDevices
    \/ \E u \in SeqUserPaths : GetDevicePose(u)
    \/ \E u \in SeqUserPaths, a \in BOOLEAN : SetDevicePose(u, MOVED_POSE, a)
    \/ \E b \in SeqBindings : GetInputStateBoolean(b[1], b[2])
    \/ \E b \in SeqBindings : GetInputStateFloat(b[1], b[2])
    \/ \E b \in SeqBindings : GetInputStateVec2(b[1], b[2])
    \/ \E b \in SeqBindings, value \in BoolInputs : SetInputStateBoolean(b[1], b[2], value)
    \/ \E b \in SeqBindings, f \in FloatInputs : SetInputStateFloat(b[1], b[2], f)
    \/ \E b \in SeqBindings, v \in Vec2Inputs : SetInputStateVec2(b[1], b[2], v[1], v[2])

Spec == Init /\ [][Next]_vars

\* ---- The HTTP server's handlers ----
\* A handler runs on the HTTP thread; here it runs from request to response
\* without interference, and between requests the GUI thread moves the right
\* hand and writes two of its components.  g_device_profile is the driver's pointer that the
\* server shares (*device_profile_ptr_).

\* NAME_TO_TYPE.find(name) followed by GetDeviceProfile: nullptr for a name
\* without an entry.
GetDeviceProfileByName(name) ==
    IF name \in ProfileNames THEN name ELSE NULLPROFILE

\* Device names of PUT /v1/profile requests: the registered ones and one
\* that has no entry.
HttpDeviceNames == ProfileNames \cup {"no_such_device"}

\* A call of the simulator made by a handler, and what it returned.
HandlerCall(c, r) ==
    /\ call' = [call EXCEPT !["http"] = c]
    /\ ret' = [ret EXCEPT !["http"] = r]
    /\ UNCHANGED <<mutex, pc>>

\* PutProfile calling SwitchDevice with whatever the lookup returned and
\* testing the result afterwards.
PutProfile_SwitchesFirst(device_name) ==
    \E new_profile \in {GetDeviceProfileByName(device_name)} :
        IF new_profile = NULLPROFILE
        THEN /\ profile_' = NULLPROFILE
             /\ state_' = ShutdownState(state_)
             /\ HandlerCall(Args("SwitchDevice", new_profile, NULLSTR, NULLSTR, 0, 0,
                                 ZERO_POSE, FALSE),
                            Returned("false"))
             /\ http' = Response("PUT /v1/profile", device_name, NULLSTR, NULLSTR,
                                 404, "Unknown device", 0, 0)
             /\ UNCHANGED g_device_profile
        ELSE /\ profile_' = new_profile
             /\ \E down \in {ShutdownState(state_)} :
                   state_' = InitializeState(down, new_profile)
             /\ HandlerCall(Args("SwitchDevice", new_profile, NULLSTR, NULLSTR, 0, 0,
                                 ZERO_POSE, FALSE),
                            Returned("true"))
             /\ g_device_profile' = new_profile
             /\ http' = Response("PUT /v1/profile", device_name, NULLSTR, NULLSTR,
                                 200, "ok", 0, 0)

\* PUT /v1/profile once the JSON body was found to name a device.  The 500
\* answer needs SwitchDevice to fail, which it does for nullptr only.
PutProfile(device_name) ==
    \E new_profile \in {GetDeviceProfileByName(device_name)} :
        IF new_profile = NULLPROFILE
        THEN /\ http' = Response("PUT /v1/profile", device_name, NULLSTR, NULLSTR,
                                 404, "Unknown device", 0, 0)
             /\ UNCHANGED <<profile_, state_, mutex, pc, call, ret, g_device_profile>>
        ELSE /\ profile_' = new_profile
             /\ \E down \in {ShutdownState(state_)} :
                   state_' = InitializeState(down, new_profile)
             /\ HandlerCall(Args("SwitchDevice", new_profile, NULLSTR, NULLSTR, 0, 0,
                                 ZERO_POSE, FALSE),
                            Returned("true"))
             /\ g_device_profile' = new_profile
             /\ http' = Response("PUT /v1/profile", device_name, NULLSTR, NULLSTR,
                                 200, "ok", 0, 0)

\* The typed getter GET /v1/inputs calls for a component of the kind found.
GetterOf(type) ==
    CASE type = "BOOLEAN" -> "GetInputStateBoolean"
      [] type = "FLOAT" -> "GetInputStateFloat"
      [] type = "VEC2" -> "GetInputStateVec2"

\* response["type"] for a component of the kind found.
TypeLabel(type) ==
    CASE type = "BOOLEAN" -> "boolean"
      [] type = "FLOAT" -> "float"
      [] type = "VEC2" -> "vec2"

\* GET /v1/inputs/<path> once the component was found in the profile: read
\* is what the getter of the component's kind returned.
GetInputFound(user_path, component_path, type, read) ==
    /\ HandlerCall(Args(GetterOf(type), NULLPROFILE, user_path, component_path, 0, 0,
                        ZERO_POSE, FALSE),
                   InputResult(read))
    /\ http' = IF read.result # "OX_COMPONENT_AVAILABLE"
               THEN Response("GET /v1/inputs", "", user_path, component_path,
                             404, "Component not available", 0, 0)
               ELSE Response("GET /v1/inputs", "", user_path, component_path,
                             200, TypeLabel(type), read.x, read.y)

\* GetInputOnDevice answering both lookup failures with one message.
GetInputOnDevice_OneOutcome(user_path, component_path, device_def) ==
    IF device_def < 0
    THEN /\ http' = Response("GET /v1/inputs", "", user_path, component_path,
                             404, "Component not found in device profile", 0, 0)
         /\ UNCHANGED <<mutex, pc, call, ret>>
    ELSE \E info \in {FindComponentInfo(DevAt(profile_, device_def), component_path)} :
            IF info.index = -1
            THEN /\ http' = Response("GET /v1/inputs", "", user_path, component_path,
                                     404, "Component not found in device profile", 0, 0)
                 /\ UNCHANGED <<mutex, pc, call, ret>>
            ELSE GetInputFound(user_path, component_path, info.type,
                               GetInputStateResult(info.type, profile_, state_,
                                                   user_path, component_path))

\* GET /v1/inputs/<path> once the device was looked up as device_def.
GetInputOnDevice(user_path, component_path, device_def) ==
    IF device_def < 0
    THEN /\ http' = Response("GET /v1/inputs", "", user_path, component_path,
                             404, "Device not found", 0, 0)
         /\ UNCHANGED <<mutex, pc, call, ret>>
    ELSE \E info \in {FindComponentInfo(DevAt(profile_, device_def), component_path)} :
            IF info.index = -1
            THEN /\ http' = Response("GET /v1/inputs", "", user_path, component_path,
                                     404, "Component not found in device profile", 0, 0)
                 /\ UNCHANGED <<mutex, pc, call, ret>>
            ELSE GetInputFound(user_path, component_path, info.type,
                               GetInputStateResult(info.type, profile_, state_,
                                                   user_path, component_path))

\* SplitBindingPath splitting at the last "/input/" of the path.
SplitBindingPath_LastMarker(binding_path) ==
    LET hits == {i \in 1..(Len(binding_path) - 1) : binding_path[i] = "/input"}
        pos == IF hits = {} THEN -1 ELSE CHOOSE i \in hits : \A j \in hits : j <= i
    IN IF pos = -1 THEN [user_path |-> <<>>, component_path |-> <<>>]
       ELSE [user_path |-> SubSeq(binding_path, 1, pos - 1),
             component_path |-> SubSeq(binding_path, pos, Len(binding_path))]

\* binding_path.substr(0, pos) and binding_path.substr(pos), two empty
\* strings for npos (-1).
SplitAt(binding_path, pos) ==
    IF pos = -1 THEN [user_path |-> <<>>, component_path |-> <<>>]
    ELSE [user_path |-> SubSeq(binding_path, 1, pos - 1),
          component_path |-> SubSeq(binding_path, pos, Len(binding_path))]

\* find("/input/") is the first segment "/input" that another segment
\* follows: the marker ends with the "/" that starts the next segment.
SplitBindingPath(binding_path) ==
    SplitAt(binding_path,
            FirstHit({i \in 1..(Len(binding_path) - 1) : binding_path[i] = "/input"}))

\* GET /v1/inputs/<path> once the binding path was split.
GetInputSplit(user_path, component_path) ==
    IF user_path = <<>> \/ component_path = <<>>
    THEN /\ http' = Response("GET /v1/inputs", "", user_path, component_path,
                             400, "Invalid binding path", 0, 0)
         /\ UNCHANGED <<mutex, pc, call, ret>>
    ELSE GetInputOnDevice(user_path, component_path,
                          FindDeviceDefByUserPath(profile_, user_path))

\* GET /v1/inputs/<path>: binding_path is the path with its leading "/".
GetInput(binding_path) ==
    /\ \E split \in {SplitBindingPath(binding_path)} :
          GetInputSplit(split.user_path, split.component_path)
    /\ UNCHANGED <<profile_, state_, g_device_profile>>

\* The driver has initialized the simulator with its default profile and
\* started the HTTP server.
InitHttp ==
    /\ profile_ = "oculus_quest_2"
    /\ state_ = InitializeState(EmptyState, "oculus_quest_2")
    /\ mutex = NoThread
    /\ pc = [t \in Threads |-> "idle"]
    /\ call = [t \in Threads |-> NoCall]
    /\ ret = [t \in Threads |-> NoResult]
    /\ g_device_profile = "oculus_quest_2"
    /\ http = NoRequest

NextHttp ==
    \/ \E device_name \in HttpDeviceNames : PutProfile(device_name)
    \/ \E u \in {HEAD, HAND_RIGHT, HAND_PREFIX, <<>>},
          c \in SeqComponentPaths \cup {<<"/trigger", "/value">>} : GetInput(u \o c)
    \/ SetDevicePose(HAND_RIGHT, MOVED_POSE, FALSE)
    \/ \E c \in {TRIGGER_VALUE, TRIGGER_TOUCH}, f \in FloatInputs :
          SetInputStateFloat(HAND_RIGHT, c, f)

SpecHttp == InitHttp /\ [][NextHttp]_vars

\* ---- Float values of any size ----
\* A caller that writes Float values inside and outside [0, 1] and reads
\* them back, under each profile.

WideFloats == {-150, -50, 0, 70, 100, 250}

FloatComponentPaths == {TRIGGER_VALUE, TRIGGER_TOUCH, THUMBSTICK_X}

InitFloat ==
    /\ profile_ \in ProfileNames
    /\ state_ = InitializeState(EmptyState, profile_)
    /\ mutex = NoThread
    /\ pc = [t \in Threads |-> "idle"]
    /\ call = [t \in Threads |-> NoCall]
    /\ ret = [t \in Threads |-> NoResult]
    /\ g_device_profile = profile_
    /\ http = NoRequest

NextFloat ==
    \/ \E u \in SeqInputUserPaths, c \in FloatComponentPaths, f \in WideFloats :
          SetInputStateFloat(u, c, f)
    \/ \E u \in SeqInputUserPaths, c \in FloatComponentPaths : GetInputStateFloat(u, c)

SpecFloat == InitFloat /\ [][NextFloat]_vars

\* ---- Lookups ----
\* A caller that resolves paths against each profile: the paths of the
\* profile, proper prefixes and extensions of them (a trailing "/" is the
\* segment "/"), and variants in another case.

\* The public FindDeviceDefByUserPath called by one thread: the DeviceDef
\* returned is its index in the profile (x), nullptr is -1.
FindDeviceDefCall(user_path) ==
    /\ UNCHANGED <<profile_, state_>>
    /\ \E d \in {FindDeviceDefByUserPath(profile_, user_path)} :
          Done(Args("FindDeviceDefByUserPath", NULLPROFILE, user_path, NULLSTR, 0, 0,
                    ZERO_POSE, FALSE),
               Result(IF d < 0 THEN "nullptr" ELSE "pointer", d, 0, ZERO_POSE, FALSE, 0,
                      NULLPROFILE))

\* The public FindComponentInfo called with what FindDeviceDefByUserPath
\* returned for user_path: the result is the kind, x the index.
FindComponentInfoCall(user_path, component_path) ==
    /\ UNCHANGED <<profile_, state_>>
    /\ \E d \in {FindDeviceDefByUserPath(profile_, user_path)} :
          \E info \in {IF d < 0 THEN [index |-> -1, type |-> "FLOAT"]
                        ELSE FindComponentInfo(DevAt(profile_, d), component_path)} :
             Done(Args("FindComponentInfo", NULLPROFILE, user_path, component_path, 0, 0,
                       ZERO_POSE, FALSE),
                  Result(info.type, info.index, 0, ZERO_POSE, FALSE, 0, NULLPROFILE))

InitLookup ==
    /\ profile_ \in ProfileNames
    /\ state_ = InitializeState(EmptyState, profile_)
    /\ mutex = NoThread
    /\ pc = [t \in Threads |-> "idle"]
    /\ call = [t \in Threads |-> NoCall]
    /\ ret = [t \in Threads |-> NoResult]
    /\ g_device_profile = profile_
    /\ http = NoRequest

LookupUserPaths ==
    {HEAD, HAND_LEFT, HAND_RIGHT, HAND_PREFIX, HAND_LEFT \o <<"/">>,
     HAND_LEFT \o <<"/aim">>, <<"/user", "/hand", "/Left">>, <<"/User", "/head">>}

\* SplitBindingPath applied to the binding path device_path \o tail; the
\* pair returned is in the response's user_path and component_path.
SplitBindingPathCall(device_path, tail) ==
    /\ call' = [call EXCEPT !["http"] =
                   Args("SplitBindingPath", NULLPROFILE, device_path, tail, 0, 0,
                        ZERO_POSE, FALSE)]
    /\ \E split \in {SplitBindingPath(device_path \o tail)} :
          http' = Response("SplitBindingPath", "", split.user_path,
                           split.component_path, 0, "", 0, 0)
    /\ UNCHANGED <<profile_, state_, mutex, pc, ret, g_device_profile>>

\* NAME_TO_TYPE, for the names the model uses.
NameToType(name) ==
    CASE name = "oculus_quest_2" -> "OCULUS_QUEST_2"
      [] name = "linked" -> "LINKED"
      [] name = "oversize" -> "OVERSIZE"

\* GetDeviceProfile's switch: the profile of a DeviceType, and the throw of
\* its default branch.
GetDeviceProfile(type) ==
    CASE type = "OCULUS_QUEST_2" -> "oculus_quest_2"
      [] type = "LINKED" -> "linked"
      [] type = "OVERSIZE" -> "oversize"
      [] OTHER -> "std::runtime_error"

\* A registry lookup records its argument in the call's profile field.
GetDeviceProfileCall(type) ==
    /\ UNCHANGED <<profile_, state_>>
    /\ \E p \in {GetDeviceProfile(type)} :
          Done(Args("GetDeviceProfile", type, NULLSTR, NULLSTR, 0, 0, ZERO_POSE, FALSE),
               IF p = "std::runtime_error" THEN Returned(p)
               ELSE Result("reference", 0, 0, ZERO_POSE, FALSE, 0, p))

GetDeviceProfileByNameCall(name) ==
    /\ UNCHANGED <<profile_, state_>>
    /\ Done(Args("GetDeviceProfileByName", name, NULLSTR, NULLSTR, 0, 0, ZERO_POSE, FALSE),
            IF name \in ProfileNames
            THEN Result("pointer", 0, 0, ZERO_POSE, FALSE, 0,
                        GetDeviceProfile(NameToType(name)))
            ELSE Returned("nullptr"))

\* GetDeviceTypeByName returns the DeviceType in result, and throws for a
\* name NAME_TO_TYPE does not have.
GetDeviceTypeByNameCall(name) ==
    /\ UNCHANGED <<profile_, state_>>
    /\ Done(Args("GetDeviceTypeByName", name, NULLSTR, NULLSTR, 0, 0, ZERO_POSE, FALSE),
            Returned(IF name \in ProfileNames THEN NameToType(name)
                     ELSE "std::runtime_error"))

\* SplitBindingPath's device paths are paths without the marker (one of them
\* ending in "/input"), one with it, and the empty path; its tails are
\* component paths, one with the marker twice, the bare "/input", and one
\* without the marker.
NextLookup ==
    \/ \E d \in {<<>>, HEAD, HAND_RIGHT, <<"/user", "/input">>,
                  <<"/user", "/input", "/left">>},
          c \in {TRIGGER_VALUE, THUMBSTICK, <<"/input", "/a", "/input", "/b">>,
                  <<"/input">>, <<"/trigger", "/value">>} :
          SplitBindingPathCall(d, c)
    \/ \E type \in {"OCULUS_QUEST_2", "LINKED", "OVERSIZE", "NOT_A_DEVICE_TYPE"} :
          GetDeviceProfileCall(type)
    \/ \E name \in HttpDeviceNames : GetDeviceProfileByNameCall(name)
    \/ \E name \in HttpDeviceNames : GetDeviceTypeByNameCall(name)
    \/ \E u \in LookupUserPaths : FindDeviceDefCall(u)
    \/ \E u \in LookupUserPaths : GetDevicePose(u)
    \/ \E u \in LookupUserPaths,
          c \in {THUMBSTICK, THUMBSTICK_X, TRIGGER_TOUCH, <<"/input">>,
                  THUMBSTICK \o <<"/">>, THUMBSTICK_X \o <<"/raw">>,
                  <<"/input", "/Thumbstick">>} :
          FindComponentInfoCall(u, c)

SpecLookup == InitLookup /\ [][NextLookup]_vars

\* ---- Writes to two controllers that share a component list ----
\* One caller writes components of both hands of the paired profile.

InitLink ==
    /\ profile_ = "paired"
    /\ state_ = InitializeState(EmptyState, profile_)
    /\ mutex = NoThread
    /\ pc = [t \in Threads |-> "idle"]
    /\ call = [t \in Threads |-> NoCall]
    /\ ret = [t \in Threads |-> NoResult]
    /\ g_device_profile = profile_
    /\ http = NoRequest

NextLink ==
    \/ \E c \in {THUMBSTICK, THUMBSTICK_X, THUMBSTICK_Y, TRIGGER_TOUCH, TRACKPAD,
                  TRIGGER_VALUE, SQUEEZE_VALUE, THUMBSTICK_CLICK},
          f \in FloatInputs :
          SetInputStateFloat(HAND_RIGHT, c, f)
    \/ \E f \in FloatInputs : SetInputStateFloat(HAND_LEFT, THUMBSTICK_X, f)
    \/ \E c \in {THUMBSTICK, THUMBSTICK_X, TRIGGER_TOUCH, TRACKPAD}, v \in Vec2Inputs :
          SetInputStateVec2(HAND_RIGHT, c, v[1], v[2])
    \/ \E v \in Vec2Inputs : SetInputStateVec2(HAND_LEFT, THUMBSTICK, v[1], v[2])
    \/ \E c \in {TRIGGER_TOUCH, TRIGGER_VALUE, THUMBSTICK_CLICK}, value \in BoolInputs :
          SetInputStateBoolean(HAND_RIGHT, c, value)

SpecLink == InitLink /\ [][NextLink]_vars

\* ---- Accessors of every kind on components of every kind ----
\* One caller writes and reads a Float, a Boolean and a Vec2 component of the
\* right controller through each typed accessor, with Floats on both sides
\* of 0.5.

InitCoerce ==
    /\ profile_ = "oculus_quest_2"
    /\ state_ = InitializeState(EmptyState, profile_)
    /\ mutex = NoThread
    /\ pc = [t \in Threads |-> "idle"]
    /\ call = [t \in Threads |-> NoCall]
    /\ ret = [t \in Threads |-> NoResult]
    /\ g_device_profile = profile_
    /\ http = NoRequest

NextCoerce ==
    \E c \in {TRIGGER_VALUE, TRIGGER_TOUCH, THUMBSTICK} :
        \/ \E value \in BoolInputs : SetInputStateBoolean(HAND_RIGHT, c, value)
        \/ \E f \in {HALF - 1, HALF} : SetInputStateFloat(HAND_RIGHT, c, f)
        \/ \E v \in Vec2Inputs : SetInputStateVec2(HAND_RIGHT, c, v[1], v[2])
        \/ GetInputStateBoolean(HAND_RIGHT, c)
        \/ GetInputStateFloat(HAND_RIGHT, c)
        \/ GetInputStateVec2(HAND_RIGHT, c)

SpecCoerce == InitCoerce /\ [][NextCoerce]_vars

\* ---- Concurrent callers ----
\* Each thread runs one public operation at a time.  pc[t] is "idle" between
\* calls; the name of a critical section while t holds state_mutex_ inside
\* it; or a position of a public operation at which t holds no lock.
\* A thread that has to wait for the mutex simply does not step.

ConcProfiles == {"linked", "oversize"}

ConcLockedCalls ==
    {Args("SwitchDevice", p, NULLSTR, NULLSTR, 0, 0, ZERO_POSE, FALSE) :
        p \in ConcProfiles}
    \cup
    {Args("UpdateAllDevices", NULLPROFILE, NULLSTR, NULLSTR, 0, 0, ZERO_POSE, FALSE),
     Args("GetDevicePose", NULLPROFILE, HEAD, NULLSTR, 0, 0, ZERO_POSE, FALSE),
     Args("SetDevicePose", NULLPROFILE, HEAD, NULLSTR, 0, 0, MOVED_POSE, FALSE),
     Args("GetInputStateFloat", NULLPROFILE, HAND_RIGHT, THUMBSTICK_X, 0, 0, ZERO_POSE, FALSE),
     Args("GetInputStateVec2", NULLPROFILE, HAND_RIGHT, THUMBSTICK, 0, 0, ZERO_POSE, FALSE),
     Args("SetInputStateFloat", NULLPROFILE, HAND_RIGHT, THUMBSTICK_X, 70, 0, ZERO_POSE, FALSE),
     Args("SetInputStateVec2", NULLPROFILE, HAND_RIGHT, THUMBSTICK, -50, 25, ZERO_POSE, FALSE)}

ConcUnlockedCalls ==
    {Args("GetProfile", NULLPROFILE, NULLSTR, NULLSTR, 0, 0, ZERO_POSE, FALSE),
     Args("FindDeviceDefByUserPath", NULLPROFILE, HAND_RIGHT, NULLSTR, 0, 0, ZERO_POSE, FALSE)}

\* The critical section a public operation enters first.
EntrySection(op) ==
    CASE op = "SwitchDevice" -> "Shutdown"
      [] op \in {"GetInputStateBoolean", "GetInputStateFloat", "GetInputStateVec2"}
            -> "GetInputState"
      [] op \in {"SetInputStateBoolean", "SetInputStateFloat", "SetInputStateVec2"}
            -> "SetInputState"
      [] OTHER -> op

\* The template argument CT of GetInputState / SetInputState in a typed call.
AccessorKind(op) ==
    CASE op \in {"GetInputStateBoolean", "SetInputStateBoolean"} -> "BOOLEAN"
      [] op \in {"GetInputStateFloat", "SetInputStateFloat"} -> "FLOAT"
      [] op \in {"GetInputStateVec2", "SetInputStateVec2"} -> "VEC2"

\* std::lock_guard's constructor, once the mutex is free.
Lock(t) == mutex = NoThread /\ mutex' = t

\* std::lock_guard's destructor.
Unlock(t) == mutex = t /\ mutex' = NoThread

Goto(t, where) ==
    /\ pc' = [pc EXCEPT ![t] = where]
    /\ UNCHANGED <<g_device_profile, http>>

Return(t, r) == Goto(t, "idle") /\ ret' = [ret EXCEPT ![t] = r]

\* A public operation whose first statement takes the lock is called and
\* gets the lock.
Enter(t) ==
    /\ pc[t] = "idle"
    /\ \E c \in ConcLockedCalls :
          /\ call' = [call EXCEPT ![t] = c]
          /\ Goto(t, EntrySection(c.op))
    /\ Lock(t)
    /\ ret' = [ret EXCEPT ![t] = NoResult]
    /\ UNCHANGED <<profile_, state_>>

\* GetProfile or FindDeviceDefByUserPath is called: neither takes the lock.
EnterUnlocked(t) ==
    /\ pc[t] = "idle"
    /\ \E c \in ConcUnlockedCalls :
          /\ call' = [call EXCEPT ![t] = c]
          /\ Goto(t, c.op)
    /\ ret' = [ret EXCEPT ![t] = NoResult]
    /\ UNCHANGED <<profile_, state_, mutex>>

ShutdownSection(t) ==
    /\ pc[t] = "Shutdown"
    /\ profile_' = NULLPROFILE
    /\ state_' = ShutdownState(state_)
    /\ Unlock(t)
    /\ IF call[t].op = "SwitchDevice"
       THEN Goto(t, "SwitchDevice_Initialize") /\ UNCHANGED ret
       ELSE Return(t, Returned("void"))
    /\ UNCHANGED call

\* SwitchDevice, Shutdown having returned, calls Initialize.
SwitchDeviceInitialize(t) ==
    /\ pc[t] = "SwitchDevice_Initialize"
    /\ IF call[t].profile = NULLPROFILE
       THEN Return(t, Returned("false")) /\ UNCHANGED mutex
       ELSE Lock(t) /\ Goto(t, "Initialize") /\ UNCHANGED ret
    /\ UNCHANGED <<profile_, state_, call>>

\* Initialize binding the profile and setting the count, the device slots
\* left as the previous profile filled them.
InitializeSection_CountOnly(t) ==
    /\ pc[t] = "Initialize"
    /\ profile_' = call[t].profile
    /\ state_' = [state_ EXCEPT !.device_count =
                                    Min(OX_MAX_DEVICES, NumDevices(call[t].profile))]
    /\ Unlock(t)
    /\ Return(t, Returned("true"))
    /\ UNCHANGED call

InitializeSection(t) ==
    /\ pc[t] = "Initialize"
    /\ profile_' = call[t].profile
    /\ state_' = InitializeState(state_, call[t].profile)
    /\ Unlock(t)
    /\ Return(t, Returned("true"))
    /\ UNCHANGED call

UpdateAllDevicesSection(t) ==
    /\ pc[t] = "UpdateAllDevices"
    /\ Unlock(t)
    /\ Return(t, UpdateAllDevicesResult(state_))
    /\ UNCHANGED <<profile_, state_, call>>

GetDevicePoseSection(t) ==
    /\ pc[t] = "GetDevicePose"
    /\ Unlock(t)
    /\ Return(t, PoseResult(GetDevicePoseResult(state_, call[t].user_path)))
    /\ UNCHANGED <<profile_, state_, call>>

SetDevicePoseSection(t) ==
    /\ pc[t] = "SetDevicePose"
    /\ state_' = SetDevicePoseState(profile_, state_, call[t].user_path, call[t].pose,
                                    call[t].is_active)
    /\ Unlock(t)
    /\ Return(t, Returned("void"))
    /\ UNCHANGED <<profile_, call>>

GetInputStateSection(t) ==
    /\ pc[t] = "GetInputState"
    /\ Unlock(t)
    /\ \E device_index \in {FindDeviceIndexByUserPath(state_, call[t].user_path)},
          device_def \in {FindDeviceDefByUserPath(profile_, call[t].user_path)} :
       \E info \in {IF device_def < 0 THEN [index |-> -1, type |-> "FLOAT"]
                    ELSE FindComponentInfo(DevAt(profile_, device_def),
                                           call[t].component_path)} :
       \E v \in {IF device_index < 0 \/ device_def < 0 THEN NotValidated
                 ELSE ValidatedComponent(device_index, info)} :
          \E r \in {GetInputStateAt(AccessorKind(call[t].op), state_, v)} :
              Return(t, InputResult(r))
    /\ UNCHANGED <<profile_, state_, call>>

\* SetInputState calling the sync helper from inside its critical section:
\* the lock is still held when the helper asks for it.
SetInputStateSection_SyncInside(t) ==
    /\ pc[t] = "SetInputState"
    /\ \E device_index \in {FindDeviceIndexByUserPath(state_, call[t].user_path)},
          device_def \in {FindDeviceDefByUserPath(profile_, call[t].user_path)} :
       \E info \in {IF device_def < 0 THEN [index |-> -1, type |-> "FLOAT"]
                    ELSE FindComponentInfo(DevAt(profile_, device_def),
                                           call[t].component_path)} :
       \E v \in {IF device_index < 0 \/ device_def < 0 THEN NotValidated
                 ELSE ValidatedComponent(device_index, info)} :
          state_' = SetInputStateAt(AccessorKind(call[t].op), state_, v,
                                    call[t].x, call[t].y)
    /\ CASE call[t].op = "SetInputStateFloat" ->
                Goto(t, "SetInputStateFloat_Sync") /\ UNCHANGED <<ret, mutex>>
         [] call[t].op = "SetInputStateVec2" ->
                Goto(t, "SetInputStateVec2_Sync") /\ UNCHANGED <<ret, mutex>>
         [] OTHER -> Unlock(t) /\ Return(t, Returned("void"))
    /\ UNCHANGED <<profile_, call>>

\* SetInputState returns to the typed setter, which calls the sync helper
\* (SetInputStateFloat, SetInputStateVec2) or returns (SetInputStateBoolean).
\* The sections that look a device or a component up bind what the lookup
\* returned before they use it, as the code's local variables do.
SetInputStateSection(t) ==
    /\ pc[t] = "SetInputState"
    /\ \E device_index \in {FindDeviceIndexByUserPath(state_, call[t].user_path)},
          device_def \in {FindDeviceDefByUserPath(profile_, call[t].user_path)} :
       \E info \in {IF device_def < 0 THEN [index |-> -1, type |-> "FLOAT"]
                    ELSE FindComponentInfo(DevAt(profile_, device_def),
                                           call[t].component_path)} :
       \E v \in {IF device_index < 0 \/ device_def < 0 THEN NotValidated
                 ELSE ValidatedComponent(device_index, info)} :
          state_' = SetInputStateAt(AccessorKind(call[t].op), state_, v,
                                    call[t].x, call[t].y)
    /\ Unlock(t)
    /\ CASE call[t].op = "SetInputStateFloat" ->
                Goto(t, "SetInputStateFloat_Sync") /\ UNCHANGED ret
         [] call[t].op = "SetInputStateVec2" ->
                Goto(t, "SetInputStateVec2_Sync") /\ UNCHANGED ret
         [] OTHER -> Return(t, Returned("void"))
    /\ UNCHANGED <<profile_, call>>

\* The sync helper called by the typed setter takes the lock again.
EnterSync(t) ==
    /\ \/ pc[t] = "SetInputStateFloat_Sync" /\ Goto(t, "SyncLinkedVec2FromFloat")
       \/ pc[t] = "SetInputStateVec2_Sync" /\ Goto(t, "SyncLinkedFloatsFromVec2")
    /\ Lock(t)
    /\ UNCHANGED <<profile_, state_, call, ret>>

SyncLinkedVec2FromFloatSection(t) ==
    /\ pc[t] = "SyncLinkedVec2FromFloat"
    /\ \E dev_def \in {FindDeviceDefByUserPath(profile_, call[t].user_path)},
          device_index \in {FindDeviceIndexByUserPath(state_, call[t].user_path)} :
          state_' = SyncVec2FromFloatDevice(profile_, state_, dev_def, device_index,
                                            call[t].component_path)
    /\ Unlock(t)
    /\ Return(t, Returned("void"))
    /\ UNCHANGED <<profile_, call>>

SyncLinkedFloatsFromVec2Section(t) ==
    /\ pc[t] = "SyncLinkedFloatsFromVec2"
    /\ \E dev_def \in {FindDeviceDefByUserPath(profile_, call[t].user_path)},
          device_index \in {FindDeviceIndexByUserPath(state_, call[t].user_path)} :
          state_' = SyncFloatsFromVec2Device(profile_, state_, dev_def, device_index,
                                             call[t].component_path)
    /\ Unlock(t)
    /\ Return(t, Returned("void"))
    /\ UNCHANGED <<profile_, call>>

\* GetProfile's body: return profile_, whoever holds the mutex.
GetProfileRead(t) ==
    /\ pc[t] = "GetProfile"
    /\ Return(t, Result("pointer", 0, 0, ZERO_POSE, FALSE, 0, profile_))
    /\ UNCHANGED <<profile_, state_, mutex, call>>

\* The public FindDeviceDefByUserPath: reads profile_ without the mutex and
\* returns the DeviceDef (here its index in the profile read) or nullptr.
FindDeviceDefByUserPathRead(t) ==
    /\ pc[t] = "FindDeviceDefByUserPath"
    /\ LET d == FindDeviceDefByUserPath(profile_, call[t].user_path)
       IN Return(t, Result(IF d < 0 THEN "nullptr" ELSE "pointer", d, 0, ZERO_POSE,
                           FALSE, 0, profile_))
    /\ UNCHANGED <<profile_, state_, mutex, call>>

\* The engine as simulator_initialize leaves it before it starts the threads
\* that call in: Initialize has bound a profile.
InitConc ==
    /\ profile_ = "linked"
    /\ state_ = InitializeState(EmptyState, "linked")
    /\ mutex = NoThread
    /\ pc = [t \in Threads |-> "idle"]
    /\ call = [t \in Threads |-> NoCall]
    /\ ret = [t \in Threads |-> NoResult]
    /\ g_device_profile = profile_
    /\ http = NoRequest

NextConc ==
    \E t \in Threads :
        \/ Enter(t)
        \/ EnterUnlocked(t)
        \/ ShutdownSection(t)
        \/ SwitchDeviceInitialize(t)
        \/ InitializeSection(t)
        \/ UpdateAllDevicesSection(t)
        \/ GetDevicePoseSection(t)
        \/ SetDevicePoseSection(t)
        \/ GetInputStateSection(t)
        \/ SetInputStateSection(t)
        \/ EnterSync(t)
        \/ SyncLinkedVec2FromFloatSection(t)
        \/ SyncLinkedFloatsFromVec2Section(t)
        \/ GetProfileRead(t)
        \/ FindDeviceDefByUserPathRead(t)

SpecConc == InitConc /\ [][NextConc]_vars

\* The same threads under a fair scheduler: a thread that runs a critical
\* section or a lock-free body keeps running (weak fairness), and a thread
\* that waits inside a call for the mutex gets it if it is free again and
\* again (strong fairness).  Nothing obliges a thread to make a call.
SpecConcFair ==
    /\ SpecConc
    /\ \A t \in Threads :
          /\ WF_vars(\/ ShutdownSection(t)
                     \/ InitializeSection(t)
                     \/ UpdateAllDevicesSection(t)
                     \/ GetDevicePoseSection(t)
                     \/ SetDevicePoseSection(t)
                     \/ GetInputStateSection(t)
                     \/ SetInputStateSection(t)
                     \/ SyncLinkedVec2FromFloatSection(t)
                     \/ SyncLinkedFloatsFromVec2Section(t)
                     \/ GetProfileRead(t)
                     \/ FindDeviceDefByUserPathRead(t))
          /\ SF_vars(EnterSync(t) \/ SwitchDeviceInitialize(t))

\* ---- Switch requests from the HTTP thread and the GUI thread ----
\* Each thread runs its switch handler: SwitchDevice(&new_profile), and when
\* that returned true, *device_profile_ptr_ = &new_profile, the mutex not held.

\* The handler calls SwitchDevice; it has no earlier request to finish.
SwitchRequest(t) ==
    /\ pc[t] = "idle"
    /\ ~(call[t].op = "SwitchDevice" /\ ret[t].result = "true")
    /\ \E p \in ConcProfiles :
          call' = [call EXCEPT ![t] = Args("SwitchDevice", p, NULLSTR, NULLSTR,
                                           0, 0, ZERO_POSE, FALSE)]
    /\ Goto(t, "Shutdown")
    /\ Lock(t)
    /\ ret' = [ret EXCEPT ![t] = NoResult]
    /\ UNCHANGED <<profile_, state_>>

\* SwitchDevice has returned true to the handler, which stores the profile
\* in the driver's pointer and reports the switch.
UpdateDeviceProfilePtr(t) ==
    /\ pc[t] = "idle"
    /\ call[t].op = "SwitchDevice"
    /\ ret[t].result = "true"
    /\ g_device_profile' = call[t].profile
    /\ ret' = [ret EXCEPT ![t] = Returned("switched")]
    /\ http' = IF t = "http"
               THEN Response("PUT /v1/profile", call[t].profile, NULLSTR, NULLSTR,
                             200, "ok", 0, 0)
               ELSE http
    /\ UNCHANGED <<profile_, state_, mutex, pc, call>>

NextSwitch ==
    \E t \in Threads :
        \/ SwitchRequest(t)
        \/ ShutdownSection(t)
        \/ SwitchDeviceInitialize(t)
        \/ InitializeSection(t)
        \/ UpdateDeviceProfilePtr(t)

SpecSwitch == InitConc /\ [][NextSwitch]_vars

\* ---- Getters with the caller's out-parameters ----
\* A getter call together with what the caller's out-parameters held before
\* it (arguments x, y, pose, is_active) and hold after it (the result).

\* GetInputState zeroing *out_value before it looks the component up.
GetInputState_ClearsOutValue(op, user_path, component_path, out_x, out_y) ==
    /\ UNCHANGED <<profile_, state_>>
    /\ \E r \in {GetInputStateResult(AccessorKind(op), profile_, state_,
                                     user_path, component_path)} :
          Done(Args(op, NULLPROFILE, user_path, component_path, out_x, out_y,
                    ZERO_POSE, FALSE),
               InputResult(r))

\* GetInputState<CT, T>: *out_value is assigned in the three branches that
\* return OX_COMPONENT_AVAILABLE and in no other.
GetInputState(op, user_path, component_path, out_x, out_y) ==
    /\ UNCHANGED <<profile_, state_>>
    /\ \E r \in {GetInputStateResult(AccessorKind(op), profile_, state_,
                                     user_path, component_path)} :
          Done(Args(op, NULLPROFILE, user_path, component_path, out_x, out_y,
                    ZERO_POSE, FALSE),
               InputResult(IF r.result = "OX_COMPONENT_AVAILABLE" THEN r
                           ELSE [r EXCEPT !.x = out_x, !.y = out_y]))

\* GetDevicePose: *out_pose and *out_is_active are assigned after the
\* return for an unknown device.
GetDevicePoseOut(user_path, out_pose, out_is_active) ==
    /\ UNCHANGED <<profile_, state_>>
    /\ \E r \in {GetDevicePoseResult(state_, user_path)} :
          Done(Args("GetDevicePose", NULLPROFILE, user_path, NULLSTR, 0, 0,
                    out_pose, out_is_active),
               PoseResult(IF r.found THEN r
                          ELSE [r EXCEPT !.pose = out_pose,
                                         !.is_active = out_is_active]))

\* One caller reads components and poses of the Quest 2 rig, some present
\* and some not, into out-parameters it has set to zero or to something
\* else; a Float write, a pose write and a Shutdown vary what there is to read.
NextOut ==
    \/ \E op \in {"GetInputStateBoolean", "GetInputStateFloat", "GetInputStateVec2"},
          u \in {HAND_RIGHT, HAND_PREFIX},
          c \in {TRIGGER_VALUE, THUMBSTICK, NO_SUCH_COMPONENT} :
          \E out \in (IF op = "GetInputStateBoolean" THEN {<<0, 0>>, <<1, 0>>}
                      ELSE IF op = "GetInputStateFloat" THEN {<<0, 0>>, <<70, 0>>}
                      ELSE {<<0, 0>>, <<-50, 25>>}) :
              GetInputState(op, u, c, out[1], out[2])
    \/ \E u \in {HEAD, HAND_RIGHT, HAND_PREFIX},
          out_pose \in {ZERO_POSE, MOVED_POSE}, out_is_active \in BOOLEAN :
          GetDevicePoseOut(u, out_pose, out_is_active)
    \/ \E f \in FloatInputs : SetInputStateFloat(HAND_RIGHT, TRIGGER_VALUE, f)
    \/ SetDevicePose(HAND_RIGHT, MOVED_POSE, TRUE)
    \/ Shutdown

SpecOut == InitCoerce /\ [][NextOut]_vars

\* ---- Properties ----

\* The runtime devices of the bound profile: the indices in use.
RuntimeDevices == 0..(state_.device_count - 1)

\* The last call the single caller made, and what it returned.
last == call[SeqCaller]
lastRet == ret[SeqCaller]

\* Every Float of a runtime device that declares linkage to a Vec2 of that
\* device holds the value of the axis it names.
LinkedPairsAgree(p, st) ==
    \A i \in 0..(st.device_count - 1) :
        LET dev_def == DevAt(p, i)
            values == st.device_inputs[i].values
        IN \A k \in 0..(Len(dev_def.components) - 1) :
              LET c == CompAt(dev_def, k)
                  vec2 == FindComponentInfo(dev_def, c.linked_vec2_path)
              IN (/\ c.type = "FLOAT"
                  /\ c.linked_vec2_path # NULLSTR
                  /\ c.linked_axis \in {"X", "Y"}
                  /\ vec2.index # -1
                  /\ vec2.type = "VEC2")
                 => values[k].x = IF c.linked_axis = "X"
                                  THEN values[vec2.index].x
                                  ELSE values[vec2.index].y

\* C1: while a thread executes SwitchDevice(P), P non-null, on an initialized
\* engine, no call another thread makes observes the engine without devices:
\* UpdateAllDevices never reports zero devices and GetDevicePose of the
\* headset, a device of the old and of the new profile, never fails.
\* (No caller of SpecConc shuts the engine down or passes a null profile.)
C1_NoCallObservesEmptyEngine ==
    \A u \in Threads :
        /\ (call[u].op = "UpdateAllDevices" /\ ret[u].result = "void")
              => ret[u].out_count > 0
        /\ (call[u].op = "GetDevicePose" /\ ret[u].result # "none")
              => ret[u].result = "true"

\* C2: the linked-axis propagation runs in the critical section of the
\* triggering write: there is no state in which a thread has written a
\* component, has not yet propagated it, does not hold the mutex, and a
\* linked Float disagrees with its Vec2 axis (the state a concurrent getter
\* would read).
C2_NoHalfPropagatedWriteVisible ==
    \A t \in Threads :
        (/\ pc[t] \in {"SetInputStateFloat_Sync", "SetInputStateVec2_Sync"}
         /\ mutex # t
         /\ profile_ # NULLPROFILE)
        => LinkedPairsAgree(profile_, state_)

\* C3: after any sequence of completed calls of one thread, every Float that
\* declares linkage equals the named axis of its Vec2 on the same device.
C3_PropagationInvariant ==
    profile_ # NULLPROFILE => LinkedPairsAgree(profile_, state_)

\* The Floats of a device definition linked to the Vec2 path on the axis.
LinkedFloats(dev_def, vec2_path, axis) ==
    {k \in 0..(Len(dev_def.components) - 1) :
        /\ CompAt(dev_def, k).type = "FLOAT"
        /\ CompAt(dev_def, k).linked_vec2_path = vec2_path
        /\ CompAt(dev_def, k).linked_axis = axis}

\* The call just made wrote Float Fx, linked on axis X to Vec2 V of the
\* same resolved device: V.x is now the value written and V.y is as before.
C4_FloatWriteSetsAxis ==
    LET c == call'[SeqCaller]
        u == c.user_path
        v == ValidateDeviceAndComponent(profile_, state_, u, c.component_path)
        dev_def == DevAt(profile_, FindDeviceDefByUserPath(profile_, u))
        src_def == CompAt(dev_def, v.index)
        V == src_def.linked_vec2_path
        before == GetInputStateResult("VEC2", profile_, state_, u, V)
        after == GetInputStateResult("VEC2", profile_', state_', u, V)
    IN (/\ c.op = "SetInputStateFloat"
        /\ v.index # -1
        /\ src_def.type = "FLOAT"
        /\ src_def.linked_axis = "X"
        /\ before.result = "OX_COMPONENT_AVAILABLE")
       => /\ after.result = "OX_COMPONENT_AVAILABLE"
          /\ after.x = c.x
          /\ after.y = before.y

\* The call just made wrote {a, b} to Vec2 V of a resolved device: every
\* Float linked to V on X reads a, every Float linked to V on Y reads b.
C4_Vec2WriteSetsFloats ==
    LET c == call'[SeqCaller]
        u == c.user_path
        v == ValidateDeviceAndComponent(profile_, state_, u, c.component_path)
        dev_def == DevAt(profile_, FindDeviceDefByUserPath(profile_, u))
        reads(k) == GetInputStateResult("FLOAT", profile_', state_', u,
                                        CompAt(dev_def, k).path)
    IN (/\ c.op = "SetInputStateVec2"
        /\ v.index # -1
        /\ v.type = "VEC2")
       => /\ \A k \in LinkedFloats(dev_def, c.component_path, "X") :
                reads(k).result = "OX_COMPONENT_AVAILABLE" /\ reads(k).x = c.x
          /\ \A k \in LinkedFloats(dev_def, c.component_path, "Y") :
                reads(k).result = "OX_COMPONENT_AVAILABLE" /\ reads(k).x = c.y

\* C4: linkage law.  SetInputStateFloat(u, Fx, v) makes
\* GetInputStateVec2(u, V).x equal v and leaves V.y unchanged;
\* SetInputStateVec2(u, V, {a, b}) makes GetInputStateFloat return a for
\* every Float linked to V on X and b for every Float linked to V on Y.
C4_LinkageLaw == [][C4_FloatWriteSetsAxis /\ C4_Vec2WriteSetsFloats]_vars

\* A Float write to the linked x axis has set V.x and kept a non-zero V.y.
C4_Witness ==
    /\ profile_ = "linked"
    /\ last.op = "SetInputStateFloat"
    /\ last.user_path = HAND_RIGHT
    /\ last.component_path = THUMBSTICK_X
    /\ GetInputStateResult("VEC2", profile_, state_, HAND_RIGHT, THUMBSTICK)
          = [result |-> "OX_COMPONENT_AVAILABLE", x |-> 70, y |-> 25]

FloatReads(u, c, f) ==
    GetInputStateResult("FLOAT", profile_, state_, u, c)
        = [result |-> "OX_COMPONENT_AVAILABLE", x |-> f, y |-> 0]

\* C5: with the profile registered as "oculus_quest_2" bound: right after
\* Initialize the right trigger reads 0.0; right after SetInputStateFloat of
\* 0.7 on it, it reads 0.7; right after SetInputStateVec2 of {-0.5, 0.25} on
\* the right thumbstick, thumbstick/x reads -0.5 and thumbstick/y reads 0.25.
C5_Quest2Scenario ==
    profile_ = "oculus_quest_2" =>
        /\ (last.op = "Initialize" /\ lastRet.result = "true")
              => FloatReads(HAND_RIGHT, TRIGGER_VALUE, 0)
        /\ (/\ last.op = "SetInputStateFloat"
            /\ last.user_path = HAND_RIGHT
            /\ last.component_path = TRIGGER_VALUE)
              => FloatReads(HAND_RIGHT, TRIGGER_VALUE, last.x)
        /\ (/\ last.op = "SetInputStateVec2"
            /\ last.user_path = HAND_RIGHT
            /\ last.component_path = THUMBSTICK)
              => /\ FloatReads(HAND_RIGHT, THUMBSTICK_X, last.x)
                 /\ FloatReads(HAND_RIGHT, THUMBSTICK_Y, last.y)

\* C6: every public operation holds state_mutex_ from its first to its last
\* access to the shared state: a thread inside a call holds the mutex.
C6_CallsHoldMutexThroughout ==
    \A t \in Threads : pc[t] # "idle" => mutex = t

C8_TagsMatchDeclaredKinds ==
    profile_ # NULLPROFILE =>
        \A i \in RuntimeDevices :
            LET dev_def == DevAt(profile_, i)
                values == state_.device_inputs[i].values
            IN /\ DOMAIN values = 0..(Len(dev_def.components) - 1)
               /\ \A k \in DOMAIN values :
                     values[k].tag = TagOf(CompAt(dev_def, k).type)

\* SetInputStateFloat(0.7) on a Boolean-typed component has stored true.
C8_Witness ==
    /\ profile_ = "linked"
    /\ last.op = "SetInputStateFloat"
    /\ last.user_path = HAND_RIGHT
    /\ last.component_path = TRIGGER_TOUCH
    /\ last.x = 70
    /\ state_.device_inputs[2].values[3] = BoolValue(TRUE)

\* C9: the activity flag of every runtime device whose template is
\* always_active is set while the profile is bound; SetDevicePose with
\* is_active false on such a device stores the pose and leaves the flag set.
C9_AlwaysActiveStaysActive ==
    profile_ # NULLPROFILE =>
        /\ \A i \in RuntimeDevices :
              DevAt(profile_, i).always_active => state_.devices[i].is_active = 1
        /\ LET i == FindDeviceIndexByUserPath(state_, last.user_path)
           IN (/\ last.op = "SetDevicePose"
               /\ ~last.is_active
               /\ i >= 0
               /\ DevAt(profile_, i).always_active)
              => /\ state_.devices[i].pose = last.pose
                 /\ state_.devices[i].is_active = 1

\* SetDevicePose(headset, pose, false) has stored the pose.
C9_Witness ==
    /\ profile_ = "oculus_quest_2"
    /\ last.op = "SetDevicePose"
    /\ last.user_path = HEAD
    /\ ~last.is_active
    /\ DevAt(profile_, 0).always_active
    /\ state_.devices[0].pose = MOVED_POSE
    /\ state_.devices[0].is_active = 1

\* What GetDevicePose of the path of Device Template D is to return right
\* after Initialize.
ReadsDefault(D) ==
    GetDevicePoseResult(state_, D.user_path)
        = [found |-> TRUE, pose |-> D.default_pose, is_active |-> D.always_active]

ZeroRead == [result |-> "OX_COMPONENT_AVAILABLE", x |-> 0, y |-> 0]

\* Every component of runtime device i, read through the accessor of its
\* declared kind, is available and zero.
DeviceReadsZero(i) ==
    LET dev_def == DevAt(profile_, i)
    IN \A k \in 0..(Len(dev_def.components) - 1) :
          GetInputStateResult(CompAt(dev_def, k).type, profile_, state_,
                              dev_def.user_path, CompAt(dev_def, k).path) = ZeroRead

\* C11: right after Initialize(P) or SwitchDevice(P) returned true, every
\* component of every runtime device reads the zero value of its declared
\* kind through the matching accessor (Boolean false, Float 0.0, Vec2 {0,0}),
\* whatever was written before the call, under this or under another profile.
C11_ResetReadsZero ==
    (last.op \in {"Initialize", "SwitchDevice"} /\ lastRet.result = "true") =>
        /\ profile_ = last.profile
        /\ \A i \in RuntimeDevices : DeviceReadsZero(i)

\* SwitchDevice to the linked profile, whose right hand has the components
\* the other profiles have, has returned true.
C11_Witness ==
    /\ last.op = "SwitchDevice"
    /\ lastRet.result = "true"
    /\ profile_ = "linked"
    /\ state_.device_count = 3
    /\ Len(DevAt(profile_, 2).components) > 0
    /\ DeviceReadsZero(2)

\* C12: Initialize(nullptr) returns false and changes nothing: the bound
\* profile, the runtime devices, their poses and the component values are
\* as they were before the call, on an engine that was initialized and on
\* one that was not.
C12_NullInitializeIsNoOp ==
    [][(/\ call'[SeqCaller].op = "Initialize"
        /\ call'[SeqCaller].profile = NULLPROFILE)
       => /\ ret'[SeqCaller].result = "false"
          /\ profile_' = profile_
          /\ state_' = state_]_vars

\* Initialize(nullptr) has returned false on an engine that has a profile
\* bound and a device moved.
C12_Witness ==
    /\ last.op = "Initialize"
    /\ last.profile = NULLPROFILE
    /\ lastRet.result = "false"
    /\ profile_ = "linked"
    /\ state_.device_count = 3
    /\ state_.devices[0].pose = MOVED_POSE

\* The runtime snapshot: for each runtime device its path, pose, activity
\* flag and component values.
Snapshot ==
    [i \in RuntimeDevices |->
        [user_path |-> state_.devices[i].user_path,
         pose |-> state_.devices[i].pose,
         is_active |-> state_.devices[i].is_active # 0,
         values |-> state_.device_inputs[i].values]]

\* The defaults of profile P, a function of P's templates alone: a device
\* for each template that has a slot, at the template's default pose, active
\* when always_active, each component at the zero of its declared kind.
DefaultSnapshot(P) ==
    [i \in 0..(Min(OX_MAX_DEVICES, NumDevices(P)) - 1) |->
        [user_path |-> StrNCpy(DevAt(P, i).user_path),
         pose |-> DevAt(P, i).default_pose,
         is_active |-> DevAt(P, i).always_active,
         values |-> [k \in 0..(Len(DevAt(P, i).components) - 1) |->
                        CASE CompAt(DevAt(P, i), k).type = "BOOLEAN" -> BoolValue(FALSE)
                          [] CompAt(DevAt(P, i), k).type = "FLOAT" -> FloatValue(0)
                          [] CompAt(DevAt(P, i), k).type = "VEC2" -> Vec2Value(0, 0)]]]

\* C13: the runtime snapshot right after SwitchDevice(P) returned true
\* depends on P alone: whatever profiles were bound and whatever was written
\* before, it is P's defaults.
C13_SwitchDeviceResetsToDefaults ==
    (last.op = "SwitchDevice" /\ lastRet.result = "true") =>
        /\ profile_ = last.profile
        /\ Snapshot = DefaultSnapshot(last.profile)

\* SwitchDevice to the profile with controller components has returned true.
C13_Witness ==
    /\ last.op = "SwitchDevice"
    /\ lastRet.result = "true"
    /\ last.profile = "oculus_quest_2"
    /\ DOMAIN Snapshot = 0..2
    /\ Snapshot[2].pose = RIGHT_POSE
    /\ Snapshot = DefaultSnapshot("oculus_quest_2")

\* No profile is bound and no runtime device is in use.
Inert == profile_ = NULLPROFILE /\ state_.device_count = 0

GetterOps == {"GetInputStateBoolean", "GetInputStateFloat", "GetInputStateVec2"}

\* What the call just made returned is what an inert engine is to return.
InertAnswer ==
    LET c == call'[SeqCaller]
        r == ret'[SeqCaller]
    IN /\ c.op = "GetProfile" => r.profile = NULLPROFILE
       /\ c.op = "UpdateAllDevices" => r.out_count = 0
       /\ c.op = "GetDevicePose" => r.result = "false"
       /\ c.op \in GetterOps => r.result = "OX_COMPONENT_UNAVAILABLE"

\* C14: Shutdown leaves the engine inert, and an inert engine stays inert
\* under every call but a successful Initialize or SwitchDevice: GetProfile
\* returns null, UpdateAllDevices reports zero devices, GetDevicePose returns
\* false, every GetInputState* returns unavailable, and no setter changes the
\* state, so nothing it was passed can show after re-initialization.
C14_InertUntilInitialized ==
    [][/\ call'[SeqCaller].op = "Shutdown" => Inert'
       /\ (/\ Inert
           /\ ~(/\ call'[SeqCaller].op \in {"Initialize", "SwitchDevice"}
                /\ ret'[SeqCaller].result = "true"))
          => /\ Inert'
             /\ state_' = state_
             /\ InertAnswer]_vars

\* SetInputStateFloat has returned on an engine that was shut down with a
\* device moved.
C14_Witness ==
    /\ Inert
    /\ last.op = "SetInputStateFloat"
    /\ last.user_path = HAND_RIGHT
    /\ last.component_path = TRIGGER_VALUE
    /\ state_.devices[2].user_path = HAND_RIGHT
    /\ state_.devices[2].pose = MOVED_POSE

\* The declared kinds of the components that the device path u and the
\* component path c resolve to: empty when no profile is bound, when no
\* runtime device has path u or when no component of the Device Template
\* with path u has path c.
DeclaredKinds(u, c) ==
    IF profile_ = NULLPROFILE \/ ~(\E i \in RuntimeDevices : state_.devices[i].user_path = u)
    THEN {}
    ELSE UNION {{CompAt(DevAt(profile_, i), k).type :
                    k \in {k \in 0..(Len(DevAt(profile_, i).components) - 1) :
                              CompAt(DevAt(profile_, i), k).path = c}} :
                i \in {i \in 0..(NumDevices(profile_) - 1) :
                          DevAt(profile_, i).user_path = u}}

\* C15 as claimed: a getter returns available exactly when the device and
\* the component resolve and the accessor's kind is the component's kind,
\* and unavailable otherwise.
C15_AvailableIffKindsEqual ==
    last.op \in GetterOps =>
        /\ lastRet.result \in {"OX_COMPONENT_AVAILABLE", "OX_COMPONENT_UNAVAILABLE"}
        /\ lastRet.result = "OX_COMPONENT_AVAILABLE"
              <=> AccessorKind(last.op) \in DeclaredKinds(last.user_path, last.component_path)

\* Whether an accessor of kind CT reads a component of kind K: the kinds are
\* equal, or one is Boolean and the other Float.
Readable(CT, K) == CT = K \/ {CT, K} = {"BOOLEAN", "FLOAT"}

\* C15 as amended: a getter returns unavailable when the device or the
\* component does not resolve or when exactly one of the accessor's kind and
\* the component's kind is Vec2, and available otherwise: with the stored
\* value when the kinds are equal, with 1.0 / 0.0 when the Float accessor
\* reads a Boolean, with (value >= 0.5) when the Boolean accessor reads a
\* Float.
C15_AvailableIffReadable ==
    last.op \in GetterOps =>
        LET CT == AccessorKind(last.op)
            kinds == DeclaredKinds(last.user_path, last.component_path)
            own(K) == GetInputStateResult(K, profile_, state_, last.user_path,
                                          last.component_path)
        IN /\ lastRet.result \in {"OX_COMPONENT_AVAILABLE", "OX_COMPONENT_UNAVAILABLE"}
           /\ lastRet.result = "OX_COMPONENT_AVAILABLE"
                 <=> \E K \in kinds : Readable(CT, K)
           /\ \A K \in kinds :
                 /\ CT = K => InputResult(own(K)) = lastRet
                 /\ (CT = "FLOAT" /\ K = "BOOLEAN")
                       => lastRet.x = (IF own(K).x = 1 THEN ONE ELSE 0)
                 /\ (CT = "BOOLEAN" /\ K = "FLOAT")
                       => lastRet.x = (IF own(K).x >= HALF THEN 1 ELSE 0)

\* GetInputStateFloat on the Boolean trigger touch, set before, has returned
\* available with 1.0.
C15_Witness ==
    /\ last.op = "GetInputStateFloat"
    /\ last.user_path = HAND_RIGHT
    /\ last.component_path = TRIGGER_TOUCH
    /\ DeclaredKinds(HAND_RIGHT, TRIGGER_TOUCH) = {"BOOLEAN"}
    /\ lastRet.result = "OX_COMPONENT_AVAILABLE"
    /\ lastRet.x = ONE

SetterOps == {"SetInputStateBoolean", "SetInputStateFloat", "SetInputStateVec2"}

\* C16 as claimed: a setter whose device or component does not resolve, or
\* whose kind is not the component's declared kind, leaves every value, pose
\* and active flag as it was.
C16_MismatchIsNoOp ==
    [][(/\ call'[SeqCaller].op \in SetterOps
        /\ AccessorKind(call'[SeqCaller].op)
              \notin DeclaredKinds(call'[SeqCaller].user_path,
                                   call'[SeqCaller].component_path))
       => state_' = state_]_vars

\* The state differs from st in the value of the component with path c of
\* the runtime device with path u, which is val, and in nothing else.
OnlyWritten(st, u, c, val) ==
    \E i \in 0..(st.device_count - 1) :
        \E k \in 0..(Len(DevAt(profile_, i).components) - 1) :
            /\ st.devices[i].user_path = u
            /\ CompAt(DevAt(profile_, i), k).path = c
            /\ state_' = [st EXCEPT !.device_inputs[i].values[k] = val]

\* What the setter call just made did to a component of declared kind K.
\* Between Boolean and Float the value is converted and stored in the
\* declared kind; with Vec2 on one side only, nothing is stored.
CoercedOrDropped(c, K) ==
    LET CT == AccessorKind(c.op)
    IN /\ (CT = "FLOAT" /\ K = "BOOLEAN")
             => OnlyWritten(state_, c.user_path, c.component_path,
                            BoolValue(c.x >= HALF))
       /\ (CT = "BOOLEAN" /\ K = "FLOAT")
             => OnlyWritten(state_, c.user_path, c.component_path,
                            FloatValue(IF c.x # 0 THEN ONE ELSE 0))
       /\ (CT # K /\ "VEC2" \in {CT, K}) => state_' = state_

\* C16 as amended: a setter is a no-op when the device or the component does
\* not resolve and when exactly one of the accessor's kind and the declared
\* kind is Vec2.  SetInputStateFloat on a Boolean component stores
\* (value >= 0.5) and SetInputStateBoolean on a Float component stores
\* 1.0 / 0.0, in the declared kind, and nothing else changes.
C16_MismatchIsNoOpOrCoerced ==
    [][call'[SeqCaller].op \in SetterOps
       => LET c == call'[SeqCaller]
              kinds == DeclaredKinds(c.user_path, c.component_path)
          IN /\ kinds = {} => state_' = state_
             /\ \A K \in kinds : CoercedOrDropped(c, K)
             /\ profile_' = profile_]_vars

\* SetInputStateVec2 on the Float trigger, written before, has left it as
\* it was.
C16_Witness ==
    /\ last.op = "SetInputStateVec2"
    /\ last.user_path = HAND_RIGHT
    /\ last.component_path = TRIGGER_VALUE
    /\ DeclaredKinds(HAND_RIGHT, TRIGGER_VALUE) = {"FLOAT"}
    /\ FloatReads(HAND_RIGHT, TRIGGER_VALUE, 70)

\* No Device Template of the bound profile has the path u.
NoDeviceOfProfile(u) ==
    /\ profile_ # NULLPROFILE
    /\ \A i \in 0..(NumDevices(profile_) - 1) : DevAt(profile_, i).user_path # u

\* C18: for a device path that matches no device of the active profile,
\* GetDevicePose returns false and SetDevicePose changes nothing.
C18_UnknownDeviceIsRejected ==
    [][(/\ call'[SeqCaller].op \in {"GetDevicePose", "SetDevicePose"}
        /\ NoDeviceOfProfile(call'[SeqCaller].user_path))
       => /\ call'[SeqCaller].op = "GetDevicePose" => ret'[SeqCaller].result = "false"
          /\ state_' = state_
          /\ profile_' = profile_]_vars

\* SetDevicePose on a path that is a proper prefix of the hands' paths has
\* returned and both hands are where the profile puts them.
C18_Witness ==
    /\ profile_ = "oculus_quest_2"
    /\ last.op = "SetDevicePose"
    /\ last.user_path = HAND_PREFIX
    /\ last.pose = MOVED_POSE
    /\ NoDeviceOfProfile(HAND_PREFIX)
    /\ state_.devices[1].pose = LEFT_POSE
    /\ state_.devices[2].pose = RIGHT_POSE

\* The device path u and the component path c resolve to a Float component
\* that declares no linkage.
UnlinkedFloat(u, c) ==
    /\ profile_ # NULLPROFILE
    /\ \E i \in RuntimeDevices :
          /\ state_.devices[i].user_path = u
          /\ \E k \in 0..(Len(DevAt(profile_, i).components) - 1) :
                /\ CompAt(DevAt(profile_, i), k).path = c
                /\ CompAt(DevAt(profile_, i), k).type = "FLOAT"
                /\ CompAt(DevAt(profile_, i), k).linked_axis = "NONE"

\* C17: Float round trip.  After SetInputStateFloat(u, c, v) on a resolved
\* Float component without linkage, GetInputStateFloat(u, c) is available
\* with exactly v, for v below 0, in [0, 1] and above 1: nothing is clamped.
C17_FloatRoundTrip ==
    [][(/\ call'[SeqCaller].op = "SetInputStateFloat"
        /\ UnlinkedFloat(call'[SeqCaller].user_path, call'[SeqCaller].component_path))
       => GetInputStateResult("FLOAT", profile_', state_', call'[SeqCaller].user_path,
                              call'[SeqCaller].component_path)
             = [result |-> "OX_COMPONENT_AVAILABLE", x |-> call'[SeqCaller].x, y |-> 0]]_vars

\* GetInputStateFloat has returned -1.5 for the trigger, a Float component
\* without linkage.
C17_Witness ==
    /\ last.op = "GetInputStateFloat"
    /\ last.user_path = HAND_RIGHT
    /\ last.component_path = TRIGGER_VALUE
    /\ UnlinkedFloat(HAND_RIGHT, TRIGGER_VALUE)
    /\ lastRet.result = "OX_COMPONENT_AVAILABLE"
    /\ lastRet.x = -150

\* C19: a request to switch the profile to a name that is not registered is
\* rejected and mutates nothing: the bound profile, the runtime devices,
\* their poses and values and the driver's shared profile pointer are as
\* before, and no call of the simulator (SwitchDevice or other) is made.
C19_UnknownNameIsRejected ==
    [][(/\ http' # http
        /\ http'.request = "PUT /v1/profile"
        /\ http'.device \notin ProfileNames)
       => /\ http'.status = 404
          /\ profile_' = profile_
          /\ state_' = state_
          /\ g_device_profile' = g_device_profile
          /\ call' = call
          /\ ret' = ret]_vars

\* A request for an unknown name was answered 404 after a switch to another
\* profile and a move of the right hand, both still in place.
C19_Witness ==
    /\ http.request = "PUT /v1/profile"
    /\ http.device = "no_such_device"
    /\ http.status = 404
    /\ profile_ = "linked"
    /\ g_device_profile = "linked"
    /\ call["http"].op = "SwitchDevice"
    /\ call["http"].profile = "linked"
    /\ state_.devices[2].pose = MOVED_POSE

\* The Device Templates of the bound profile that have the path u.
TemplatesWithPath(u) ==
    IF profile_ = NULLPROFILE THEN {}
    ELSE {DevAt(profile_, i) : i \in {i \in 0..(NumDevices(profile_) - 1) :
                                         DevAt(profile_, i).user_path = u}}

\* Some Device Template with path u has a Component Template with path c.
HasComponent(u, c) ==
    \E D \in TemplatesWithPath(u) :
        \E k \in 0..(Len(D.components) - 1) : CompAt(D, k).path = c

\* C20: resolving a device path and a component path against the active
\* profile has two failures a caller can tell apart: the answer to a read
\* request is "Device not found" exactly when no Device Template has the
\* device path, and "Component not found in device profile" exactly when a
\* Device Template has it and none of its Component Templates has the
\* component path (the request's binding path being one that splits).
C20_FailuresAreDistinguishable ==
    (http.request = "GET /v1/inputs" /\ http.status # 400) =>
        /\ http.body = "Device not found"
              <=> TemplatesWithPath(http.user_path) = {}
        /\ http.body = "Component not found in device profile"
              <=> /\ TemplatesWithPath(http.user_path) # {}
                  /\ ~HasComponent(http.user_path, http.component_path)
        /\ http.status = 200 <=> HasComponent(http.user_path, http.component_path)

\* A read of a component the right hand does not have was answered
\* "Component not found in device profile".
C20_Witness ==
    /\ http.request = "GET /v1/inputs"
    /\ http.user_path = HAND_RIGHT
    /\ http.component_path = NO_SUCH_COMPONENT
    /\ TemplatesWithPath(HAND_RIGHT) # {}
    /\ http.status = 404
    /\ http.body = "Component not found in device profile"

\* The indices of the Component Templates with path c of the Device
\* Template at index d of the bound profile.
TemplatePositions(d, c) ==
    {k \in 0..(Len(DevAt(profile_, d).components) - 1) :
        CompAt(DevAt(profile_, d), k).path = c}

\* C21: resolution is by exact string equality.  A device path resolves
\* exactly when a Device Template (for GetDevicePose, a runtime device) has
\* that very path, so a proper prefix, a proper extension and a variant in
\* another case resolve to nothing; a component path resolves exactly when a
\* Component Template of the device has that very path, and the index
\* returned is the position of the first such template in the device's
\* list, returned with that template's declared kind.
C21_ExactResolution ==
    /\ last.op = "FindDeviceDefByUserPath" =>
          /\ lastRet.result = "pointer" <=> TemplatesWithPath(last.user_path) # {}
          /\ lastRet.result = "pointer" =>
                /\ DevAt(profile_, lastRet.x).user_path = last.user_path
                /\ \A i \in 0..(lastRet.x - 1) :
                      DevAt(profile_, i).user_path # last.user_path
    /\ last.op = "GetDevicePose" =>
          lastRet.result = "true"
             <=> \E i \in RuntimeDevices : state_.devices[i].user_path = last.user_path
    /\ last.op = "FindComponentInfo" =>
          /\ lastRet.x # -1 <=> HasComponent(last.user_path, last.component_path)
          /\ lastRet.x # -1 =>
                \E d \in 0..(NumDevices(profile_) - 1) :
                    /\ DevAt(profile_, d).user_path = last.user_path
                    /\ lastRet.x \in TemplatePositions(d, last.component_path)
                    /\ \A k \in TemplatePositions(d, last.component_path) : lastRet.x <= k
                    /\ lastRet.result = CompAt(DevAt(profile_, d), lastRet.x).type

\* The x axis of the right thumbstick resolved to its own position and
\* kind, not to those of the thumbstick whose path is a prefix of its path.
C21_Witness ==
    /\ profile_ = "oculus_quest_2"
    /\ last.op = "FindComponentInfo"
    /\ last.user_path = HAND_RIGHT
    /\ last.component_path = THUMBSTICK_X
    /\ lastRet.x = 4
    /\ lastRet.result = "FLOAT"
    /\ CompAt(DevAt(profile_, 2), 3).path = THUMBSTICK

\* The string of path p contains "/input/": a segment "/input" of p is
\* followed by another segment.
ContainsMarker(p) == \E i \in 1..(Len(p) - 1) : p[i] = "/input"

\* The string of path p starts with "/input/".
StartsWithMarker(p) == Len(p) >= 2 /\ p[1] = "/input"

\* The device path and the tail last passed to SplitBindingPath, and the
\* pair it returned.
splitArgs == call["http"]
splitPair == <<http.user_path, http.component_path>>

\* C22 as claimed: for every device path d that does not contain "/input/"
\* and every component path c that starts with "/input/",
\* SplitBindingPath(d + c) is (d, c); a path without the marker yields two
\* empty strings.
C22_SplitReturnsDeviceAndComponent ==
    splitArgs.op = "SplitBindingPath" =>
        /\ (/\ ~ContainsMarker(splitArgs.user_path)
            /\ StartsWithMarker(splitArgs.component_path))
              => splitPair = <<splitArgs.user_path, splitArgs.component_path>>
        /\ ~ContainsMarker(splitArgs.user_path \o splitArgs.component_path)
              => splitPair = <<(<<>>), (<<>>)>>

\* C22 as amended: the same for every device path d such that d + "/" does
\* not contain "/input/", that is, d neither contains "/input/" nor ends
\* with "/input"; c may contain further occurrences of "/input/".
C22_SplitReturnsPairUnlessDeviceEndsInInput ==
    splitArgs.op = "SplitBindingPath" =>
        /\ (/\ ~ContainsMarker(splitArgs.user_path \o <<"/">>)
            /\ StartsWithMarker(splitArgs.component_path))
              => splitPair = <<splitArgs.user_path, splitArgs.component_path>>
        /\ ~ContainsMarker(splitArgs.user_path \o splitArgs.component_path)
              => splitPair = <<(<<>>), (<<>>)>>

\* "/user/hand/right" + "/input/a/input/b" was split at the first marker.
C22_Witness ==
    /\ splitArgs.op = "SplitBindingPath"
    /\ splitArgs.user_path = HAND_RIGHT
    /\ splitArgs.component_path = <<"/input", "/a", "/input", "/b">>
    /\ splitPair = <<HAND_RIGHT, <<"/input", "/a", "/input", "/b">> >>

\* The DeviceTypes of the registered profiles.
KnownTypes == {NameToType(name) : name \in ProfileNames}

\* C23: Profile Registry lookups never signal absence by an exception: a
\* lookup by a name that has no registry entry yields a null result (no
\* lookup by name throws), a lookup by type returns for every DeviceType of
\* the known set a profile whose type field is that type, and every name of
\* the name table maps to such a profile.
C23_AbsenceIsNeverAnException ==
    /\ last.op \in {"GetDeviceProfileByName", "GetDeviceTypeByName"} =>
          /\ lastRet.result # "std::runtime_error"
          /\ (last.op = "GetDeviceProfileByName" /\ last.profile \notin ProfileNames)
                => lastRet.result = "nullptr"
          /\ (last.op = "GetDeviceProfileByName" /\ last.profile \in ProfileNames)
                => /\ lastRet.result = "pointer"
                   /\ ProfileOf(lastRet.profile).type = NameToType(last.profile)
          /\ (last.op = "GetDeviceTypeByName" /\ last.profile \in ProfileNames)
                => lastRet.result = NameToType(last.profile)
    /\ (last.op = "GetDeviceProfile" /\ last.profile \in KnownTypes) =>
          /\ lastRet.result = "reference"
          /\ ProfileOf(lastRet.profile).type = last.profile

\* Entry i of a snapshot is runtime device i of st: its path is the path of
\* Device Template i of profile p, and its pose and active flag are what
\* GetDevicePose returns for that path on st.
SnapshotEntryAgrees(p, st, out_states, i) ==
    /\ out_states[i].user_path = StrNCpy(DevAt(p, i).user_path)
    /\ GetDevicePoseResult(st, out_states[i].user_path)
          = [found |-> TRUE, pose |-> out_states[i].pose,
             is_active |-> out_states[i].is_active # 0]

\* C24: the step in which a thread's UpdateAllDevices returns reports a
\* count that equals the number of runtime devices and is at most
\* OX_MAX_DEVICES, writes exactly that many entries, in template order, and
\* entry i carries the path, pose and active flag GetDevicePose returns for
\* that device in the state of that step.
C24_SnapshotIsBoundedAndConsistent ==
    [][\A t \in Threads :
          (pc[t] = "UpdateAllDevices" /\ pc'[t] = "idle") =>
              /\ state_' = state_
              /\ ret'[t].out_count = state_.device_count
              /\ ret'[t].out_count <= OX_MAX_DEVICES
              /\ DOMAIN ret'[t].out_states = 0..(ret'[t].out_count - 1)
              /\ \A i \in 0..(ret'[t].out_count - 1) :
                    SnapshotEntryAgrees(profile_, state_, ret'[t].out_states, i)]_vars

\* A thread's UpdateAllDevices returned OX_MAX_DEVICES entries, the headset's
\* moved pose and set active flag among them.
C24_Witness ==
    \E t \in Threads :
        /\ call[t].op = "UpdateAllDevices"
        /\ ret[t].result = "void"
        /\ ret[t].out_count = OX_MAX_DEVICES
        /\ \E i \in DOMAIN ret[t].out_states :
              /\ ret[t].out_states[i].user_path = HEAD
              /\ ret[t].out_states[i].pose = MOVED_POSE
              /\ ret[t].out_states[i].is_active = 1

\* C25: a setter call on the device at path u changes no component value of
\* a runtime device whose path is not u, also when that device has the same
\* Component Templates: linked-axis propagation stays on the written device.
C25_PropagationStaysOnDevice ==
    [][call'[SeqCaller].op \in SetterOps =>
          \A i \in RuntimeDevices :
              state_.devices[i].user_path # call'[SeqCaller].user_path
                  => state_'.device_inputs[i] = state_.device_inputs[i]]_vars

\* The right thumbstick was written as a Vec2 and its x Float followed, while
\* the left hand, whose templates are the same, keeps the x it was given.
C25_Witness ==
    /\ profile_ = "paired"
    /\ DevAt(profile_, 1).components = DevAt(profile_, 2).components
    /\ last.op = "SetInputStateVec2"
    /\ last.user_path = HAND_RIGHT
    /\ last.component_path = THUMBSTICK
    /\ state_.device_inputs[2].values[0] = Vec2Value(last.x, last.y)
    /\ state_.device_inputs[2].values[1] = FloatValue(last.x)
    /\ \E f \in FloatInputs :
          /\ f # last.x
          /\ state_.device_inputs[1].values[1] = FloatValue(f)
          /\ state_.device_inputs[1].values[0].x = f

\* The positions at which a thread's next step takes the mutex.
LockPoints ==
    {"idle", "SwitchDevice_Initialize", "SetInputStateFloat_Sync",
     "SetInputStateVec2_Sync"}

Thrown == {"std::runtime_error", "bad_variant_access"}

\* C27: every error kind is signalled through a return value: no call ends
\* in an exception, whatever name, type or path it is given; a lookup of a
\* device path no template has returns the not-found value (GetDevicePose
\* false, FindDeviceDefByUserPath null, FindComponentInfo index -1), and a
\* name without a registry entry yields a null or empty result.
C27_ErrorsAreReturnValues ==
    /\ lastRet.result \notin Thrown
    /\ (last.op = "GetDevicePose" /\ TemplatesWithPath(last.user_path) = {})
          => lastRet.result = "false"
    /\ (last.op = "FindDeviceDefByUserPath" /\ TemplatesWithPath(last.user_path) = {})
          => lastRet.result = "nullptr"
    /\ (last.op = "FindComponentInfo"
        /\ ~HasComponent(last.user_path, last.component_path))
          => lastRet.x = -1

\* The device at path u lists a Component Template with path c, and every
\* such template is restricted to a device path other than u.
RestrictedElsewhere(u, c) ==
    /\ HasComponent(u, c)
    /\ \A D \in TemplatesWithPath(u) :
          \A k \in 0..(Len(D.components) - 1) :
              CompAt(D, k).path = c =>
                  CompAt(D, k).hand_restriction \notin {NULLSTR, u}

\* C28: a Component Template restricted to device path p does not resolve on
\* a device with another path that lists it: a setter called for it there
\* changes nothing.
C28_RestrictionLimitsTheComponent ==
    [][(/\ call'[SeqCaller].op \in SetterOps
        /\ RestrictedElsewhere(call'[SeqCaller].user_path,
                               call'[SeqCaller].component_path))
          => state_' = state_]_vars

\* Component Template k of Device Template D is a Float whose linkage names
\* Component Template m of D, a Vec2, with an axis.
ValidLink(D, k, m) ==
    /\ CompAt(D, k).type = "FLOAT"
    /\ CompAt(D, k).linked_vec2_path = CompAt(D, m).path
    /\ CompAt(D, k).linked_axis # "NONE"
    /\ CompAt(D, m).type = "VEC2"

\* C29: linkage takes effect only from or to a Float template whose linked
\* path names a Vec2 of the device.  A setter call for component c of device
\* u changes, besides c, only a Vec2 that the Float c names (on
\* SetInputStateFloat) or Floats that name the Vec2 c (on SetInputStateVec2):
\* a Boolean or Vec2 template that carries linkage neither propagates nor is
\* overwritten, and a Float whose linked path is missing or names a
\* non-Vec2 is written as passed with no other component changed.
C29_LinkageOnlyFloatToVec2 ==
    [][call'[SeqCaller].op \in SetterOps =>
          \A i \in RuntimeDevices :
              LET D == DevAt(profile_, i)
                  c == call'[SeqCaller]
                  Comps == 0..(Len(D.components) - 1)
              IN \A k \in Comps :
                    /\ state_'.device_inputs[i].values[k]
                          # state_.device_inputs[i].values[k]
                       => /\ D.user_path = c.user_path
                          /\ \/ CompAt(D, k).path = c.component_path
                             \/ \E m \in Comps :
                                   /\ CompAt(D, m).path = c.component_path
                                   /\ \/ c.op = "SetInputStateVec2" /\ ValidLink(D, k, m)
                                      \/ c.op = "SetInputStateFloat" /\ ValidLink(D, m, k)
                    /\ (/\ c.op = "SetInputStateFloat"
                        /\ D.user_path = c.user_path
                        /\ CompAt(D, k).path = c.component_path
                        /\ CompAt(D, k).type = "FLOAT")
                       => state_'.device_inputs[i].values[k] = FloatValue(c.x)]_vars

\* The right thumbstick was written as a Vec2: the x Float linked to it
\* followed, the Boolean linked to it keeps the true written before, and
\* the Float linked to that Boolean keeps its own value.
C29_Witness ==
    /\ profile_ = "paired"
    /\ last.op = "SetInputStateVec2"
    /\ last.user_path = HAND_RIGHT
    /\ last.component_path = THUMBSTICK
    /\ CompAt(DevAt(profile_, 2), 3).type = "BOOLEAN"
    /\ CompAt(DevAt(profile_, 2), 3).linked_vec2_path = THUMBSTICK
    /\ CompAt(DevAt(profile_, 2), 6).linked_vec2_path = CompAt(DevAt(profile_, 2), 3).path
    /\ state_.device_inputs[2].values[1] = FloatValue(last.x)
    /\ state_.device_inputs[2].values[3] = BoolValue(TRUE)
    /\ \E f \in FloatInputs : state_.device_inputs[2].values[6] = FloatValue(f)

\* The Boolean and the Float that a Boolean or Float setter call c writes,
\* under the one policy: a Float is true from 0.5 on, true is 1.0.
WrittenBool(c) ==
    IF AccessorKind(c.op) = "BOOLEAN" THEN c.x # 0 ELSE c.x >= HALF

WrittenFloat(c) ==
    IF AccessorKind(c.op) = "FLOAT" THEN c.x ELSE IF c.x # 0 THEN ONE ELSE 0

\* C30: one coercion policy in getters and setters.  A getter call that
\* follows a Boolean or Float setter call on the same component, declared
\* Boolean or Float, is available; the Boolean getter returns the Boolean
\* written (b itself after SetInputStateBoolean(b), value >= 0.5 after
\* SetInputStateFloat(value)) whichever of the two kinds the component has;
\* the Float getter returns 1.0 / 0.0 for that Boolean, or the Float itself
\* when a Float was written to a Float component.  With Vec2 on exactly one
\* side nothing is coerced: the getter is unavailable and the setter stores
\* nothing.
C30_OneCoercionPolicy ==
    [][LET a == call[SeqCaller]
           b == call'[SeqCaller]
           r == ret'[SeqCaller]
           kinds == DeclaredKinds(b.user_path, b.component_path)
       IN \A K \in kinds :
             /\ (/\ a.op \in {"SetInputStateBoolean", "SetInputStateFloat"}
                 /\ b.op \in {"GetInputStateBoolean", "GetInputStateFloat"}
                 /\ a.user_path = b.user_path
                 /\ a.component_path = b.component_path
                 /\ K # "VEC2")
                => /\ r.result = "OX_COMPONENT_AVAILABLE"
                   /\ b.op = "GetInputStateBoolean"
                         => r.x = (IF WrittenBool(a) THEN 1 ELSE 0)
                   /\ (b.op = "GetInputStateFloat" /\ K = "BOOLEAN")
                         => r.x = (IF WrittenBool(a) THEN ONE ELSE 0)
                   /\ (b.op = "GetInputStateFloat" /\ K = "FLOAT")
                         => r.x = WrittenFloat(a)
             /\ (/\ b.op \in GetterOps
                 /\ AccessorKind(b.op) # K
                 /\ "VEC2" \in {AccessorKind(b.op), K})
                => r.result = "OX_COMPONENT_UNAVAILABLE" /\ state_' = state_
             /\ (/\ b.op \in SetterOps
                 /\ AccessorKind(b.op) # K
                 /\ "VEC2" \in {AccessorKind(b.op), K})
                => state_' = state_]_vars

\* GetInputStateBoolean on the Float trigger returned true: the trigger
\* holds the 1.0 that SetInputStateBoolean(true) stored.
C30_Witness ==
    /\ last.op = "GetInputStateBoolean"
    /\ last.user_path = HAND_RIGHT
    /\ last.component_path = TRIGGER_VALUE
    /\ DeclaredKinds(HAND_RIGHT, TRIGGER_VALUE) = {"FLOAT"}
    /\ state_.device_inputs[2].values[0] = FloatValue(ONE)
    /\ lastRet.result = "OX_COMPONENT_AVAILABLE"
    /\ lastRet.x = 1

\* The Device Template of the bound profile with user path u is always_active.
TemplateAlwaysActive(u) ==
    \E k \in 1..NumDevices(profile_) :
        /\ ProfileOf(profile_).devices[k].user_path = u
        /\ ProfileOf(profile_).devices[k].always_active

\* C31: pose round trip.  GetDevicePose(u) right after SetDevicePose(u, p, a)
\* on a resolved device u returns true, exactly p, and the flag a or
\* u.always_active; SetDevicePose stores p in u's slot and leaves the pose
\* and the flag of every other device, and every component value, as they were.
C31_PoseRoundTrip ==
    [][LET a == call[SeqCaller]
           b == call'[SeqCaller]
           r == ret'[SeqCaller]
           i == FindDeviceIndexByUserPath(state_, b.user_path)
       IN /\ (/\ a.op = "SetDevicePose"
              /\ b.op = "GetDevicePose"
              /\ a.user_path = b.user_path
              /\ i >= 0)
             => /\ r.result = "true"
                /\ r.pose = a.pose
                /\ r.is_active = (a.is_active \/ TemplateAlwaysActive(b.user_path))
          /\ b.op = "SetDevicePose"
             => /\ \A j \in DOMAIN state_.devices :
                      j # i => state_'.devices[j] = state_.devices[j]
                /\ i >= 0 => state_'.devices[i].pose = b.pose
                /\ state_'.device_inputs = state_.device_inputs
                /\ state_'.device_count = state_.device_count]_vars

\* GetDevicePose of the right controller returned the pose and the false
\* flag that SetDevicePose stored, the headset still at its default.
C31_Witness ==
    /\ profile_ = "oculus_quest_2"
    /\ last.op = "GetDevicePose"
    /\ last.user_path = HAND_RIGHT
    /\ ~TemplateAlwaysActive(HAND_RIGHT)
    /\ state_.devices[2].pose = MOVED_POSE
    /\ state_.devices[0].pose = HEAD_POSE
    /\ lastRet.result = "true"
    /\ lastRet.pose = MOVED_POSE
    /\ ~lastRet.is_active

\* Component k of Device Template D may change when the setter call c writes
\* component path c.component_path of D's device: k is the written component,
\* or the Vec2 that the written Float names (then old and new differ in the
\* named axis only), or a Float that names the written Vec2.
InWriteFrame(D, k, c, old, new) ==
    \/ CompAt(D, k).path = c.component_path
    \/ /\ c.op = "SetInputStateFloat"
       /\ CompAt(D, k).type = "VEC2"
       /\ \E m \in 0..(Len(D.components) - 1) :
             /\ CompAt(D, m).path = c.component_path
             /\ CompAt(D, m).type = "FLOAT"
             /\ CompAt(D, m).linked_vec2_path = CompAt(D, k).path
             /\ \/ CompAt(D, m).linked_axis = "X" /\ new.y = old.y
                \/ CompAt(D, m).linked_axis = "Y" /\ new.x = old.x
    \/ /\ c.op = "SetInputStateVec2"
       /\ CompAt(D, k).type = "FLOAT"
       /\ CompAt(D, k).linked_vec2_path = c.component_path

\* C32: frame of an input write.  A SetInputState* call on component c of
\* device u leaves the bound profile, the device count, every pose and
\* active flag and every other device's values unchanged; on u it changes
\* at most c, the named axis of the Vec2 a written Float is linked to, and
\* the Floats linked to exactly the written Vec2 path.  SetDevicePose
\* changes no component value.
C32_InputWriteFrame ==
    [][LET c == call'[SeqCaller]
           i == FindDeviceIndexByUserPath(state_, c.user_path)
       IN /\ c.op \in SetterOps
             => /\ profile_' = profile_
                /\ state_'.device_count = state_.device_count
                /\ state_'.devices = state_.devices
                /\ \A j \in DOMAIN state_.device_inputs :
                      j # i => state_'.device_inputs[j] = state_.device_inputs[j]
                /\ i >= 0
                   => /\ DOMAIN state_'.device_inputs[i].values
                            = DOMAIN state_.device_inputs[i].values
                      /\ \A k \in DOMAIN state_.device_inputs[i].values :
                            state_'.device_inputs[i].values[k]
                                  # state_.device_inputs[i].values[k]
                            => InWriteFrame(DevAt(profile_, i), k, c,
                                            state_.device_inputs[i].values[k],
                                            state_'.device_inputs[i].values[k])
          /\ c.op = "SetDevicePose"
             => state_'.device_inputs = state_.device_inputs /\ profile_' = profile_]_vars

\* SetInputStateFloat wrote thumbstick/x after the thumbstick held (-0.5,
\* 0.25): the Vec2's x follows, its y is kept.
C32_Witness ==
    /\ profile_ = "linked"
    /\ last.op = "SetInputStateFloat"
    /\ last.user_path = HAND_RIGHT
    /\ last.component_path = THUMBSTICK_X
    /\ state_.device_inputs[2].values[1] = FloatValue(70)
    /\ state_.device_inputs[2].values[0] = Vec2Value(70, 25)
    /\ state_.device_inputs[2].values[2] = FloatValue(25)
    /\ state_.devices[2].pose = RIGHT_POSE

\* C33: a failing getter leaves the caller's outputs untouched.  After a
\* GetInputState* call that returned unavailable the value out-parameter
\* holds what the caller had put there, and after a GetDevicePose call that
\* returned false so do the pose and the active flag.
C33_FailingGetterKeepsOutputs ==
    /\ (last.op \in GetterOps /\ lastRet.result = "OX_COMPONENT_UNAVAILABLE")
       => lastRet.x = last.x /\ lastRet.y = last.y
    /\ (last.op = "GetDevicePose" /\ lastRet.result = "false")
       => lastRet.pose = last.pose /\ lastRet.is_active = last.is_active

\* GetInputStateVec2 on the Float trigger was unavailable with (-0.5, 0.25)
\* in the out-parameter, while the trigger held 0.7.
C33_Witness ==
    /\ last.op = "GetInputStateVec2"
    /\ last.user_path = HAND_RIGHT
    /\ last.component_path = TRIGGER_VALUE
    /\ last.x = -50 /\ last.y = 25
    /\ state_.device_count > 0
    /\ state_.device_inputs[2].values[0] = FloatValue(70)
    /\ lastRet.result = "OX_COMPONENT_UNAVAILABLE"
    /\ lastRet.x = -50 /\ lastRet.y = 25

\* No thread is inside a call.
Quiescent == \A t \in Threads : pc[t] = "idle"

\* The runtime devices are exactly those of profile P: its count (capped),
\* and for each device the template's path and one value of the declared
\* kind per component.
DevicesAreThoseOf(P, st) ==
    /\ st.device_count = Min(OX_MAX_DEVICES, NumDevices(P))
    /\ \A i \in 0..(st.device_count - 1) :
          /\ st.devices[i].user_path = DevAt(P, i).user_path
          /\ DOMAIN st.device_inputs[i].values
                = 0..(Len(DevAt(P, i).components) - 1)
          /\ \A k \in DOMAIN st.device_inputs[i].values :
                st.device_inputs[i].values[k].tag
                    = TagOf(CompAt(DevAt(P, i), k).type)

\* C34: coherence after concurrent SwitchDevice calls.  Whenever every call
\* has returned, a profile is bound, it is a profile the engine was
\* initialized with or switched to (one of the two requested when both
\* threads' last calls were SwitchDevice), and the runtime devices are
\* exactly that profile's: never empty, never a mixture.
C34_CoherentOnceSwitchesReturn ==
    Quiescent =>
        /\ profile_ \in ConcProfiles
        /\ (\A t \in Threads : call[t].op = "SwitchDevice")
              => profile_ \in {call[t].profile : t \in Threads}
        /\ DevicesAreThoseOf(profile_, state_)

\* Both threads have returned from SwitchDevice, to different profiles, and
\* the one bound is the tracker rig, whose devices replaced the linked rig's.
C34_Witness ==
    /\ Quiescent
    /\ call["http"].op = "SwitchDevice" /\ call["http"].profile = "linked"
    /\ call["gui"].op = "SwitchDevice" /\ call["gui"].profile = "oversize"
    /\ ret["http"].result = "true" /\ ret["gui"].result = "true"
    /\ profile_ = "oversize"
    /\ state_.devices[2].user_path = TrackerPath(3)

\* The engine (bound profile and state) after call c runs alone, from call
\* to return, on engine s.
SerialCall(c, s) ==
    CASE c.op = "SwitchDevice" ->
            [profile |-> c.profile,
             state |-> InitializeState(ShutdownState(s.state), c.profile)]
      [] c.op = "SetDevicePose" ->
            [s EXCEPT !.state = SetDevicePoseState(s.profile, s.state, c.user_path,
                                                   c.pose, c.is_active)]
      [] c.op = "SetInputStateFloat" ->
            [s EXCEPT !.state =
                SyncLinkedVec2FromFloatState(
                    s.profile,
                    SetInputStateState("FLOAT", s.profile, s.state, c.user_path,
                                       c.component_path, c.x, c.y),
                    c.user_path, c.component_path)]
      [] c.op = "SetInputStateVec2" ->
            [s EXCEPT !.state =
                SyncLinkedFloatsFromVec2State(
                    s.profile,
                    SetInputStateState("VEC2", s.profile, s.state, c.user_path,
                                       c.component_path, c.x, c.y),
                    c.user_path, c.component_path)]
      [] OTHER -> s

RECURSIVE SerialClosure(_)
SerialClosure(S) ==
    LET T == S \cup {SerialCall(c, s) : c \in ConcLockedCalls, s \in S}
    IN IF T = S THEN S ELSE SerialClosure(T)

\* Every engine that the concurrent callers' calls produce when they run one
\* at a time, in any order and number, from the initial engine.
SerialOutcomes ==
    SerialClosure({[profile |-> "linked",
                    state |-> InitializeState(EmptyState, "linked")]})

\* C35: quiescent consistency of linked pairs.  Whenever every call has
\* returned, each linked Float equals the axis of its Vec2, and the engine
\* (bound profile, poses and values) is one that the callers' calls produce
\* when they run one at a time in some order.
C35_QuiescentLinkedPairs ==
    Quiescent =>
        /\ profile_ # NULLPROFILE
        /\ LinkedPairsAgree(profile_, state_)
        /\ [profile |-> profile_, state |-> state_] \in SerialOutcomes

\* C36: SwitchDevice(nullptr) returns false and leaves the engine as
\* Shutdown does: no profile bound, no runtime device.  The call after it
\* gets the answers of an inert engine and leaves it inert, unless it is an
\* Initialize or SwitchDevice that returns true, and then the runtime
\* snapshot is the new profile's defaults: nothing of the profile that was
\* bound before is kept.
C36_NullSwitchShutsDown ==
    [][/\ (/\ call'[SeqCaller].op = "SwitchDevice"
           /\ call'[SeqCaller].profile = NULLPROFILE)
          => /\ ret'[SeqCaller].result = "false"
             /\ profile_' = NULLPROFILE
             /\ state_'.device_count = 0
       /\ (/\ last.op = "SwitchDevice"
           /\ last.profile = NULLPROFILE)
          => IF /\ call'[SeqCaller].op \in {"Initialize", "SwitchDevice"}
                /\ ret'[SeqCaller].result = "true"
             THEN /\ profile_' = call'[SeqCaller].profile
                  /\ Snapshot' = DefaultSnapshot(call'[SeqCaller].profile)
             ELSE Inert' /\ InertAnswer]_vars

\* SwitchDevice(nullptr) has returned false on an engine that had the linked
\* rig bound, its right controller moved and its thumbstick written: the
\* slots still hold them, the count is zero.
C36_Witness ==
    /\ last.op = "SwitchDevice"
    /\ last.profile = NULLPROFILE
    /\ lastRet.result = "false"
    /\ Inert
    /\ state_.devices[2].pose = MOVED_POSE
    /\ state_.device_inputs[2].values[0] = Vec2Value(-50, 25)

\* Thread t is inside a switch request: inside SwitchDevice, or back from
\* it with the pointer still to update.
SwitchInProgress(t) ==
    \/ pc[t] # "idle"
    \/ call[t].op = "SwitchDevice" /\ ret[t].result = "true"

\* C37: whenever no switch request is in progress, the device-profile
\* pointer that the driver callbacks read is the profile bound in the engine.
C37_SharedPointerAgrees ==
    (\A t \in Threads : ~SwitchInProgress(t)) => g_device_profile = profile_

====
